---- MODULE Spec2Model ----
(***************************************************************************)
(* earbug: the listening-event store, its merge (ingest), the snapshot     *)
(* codec, the report derivation, the OAuth state handling and the          *)
(* singleflight-coalesced update handlers.                                 *)
(*                                                                         *)
(* Two generations of the server are modelled.                             *)
(*   v4, one in-memory store behind storemu:                               *)
(*       build = "app"    the App of package main   (hUpdate, hExport ...) *)
(*       build = "serve"  the Server of package serve (RPC handlers)       *)
(*   v3, one stored object per user behind a singleflight.Group:           *)
(*       sfBuild = "cached"    server/server.go (userData cache, initOnce) *)
(*       sfBuild = "stateless" the retry-loop handlers (newUserData)       *)
(***************************************************************************)
EXTENDS Integers, Sequences, FiniteSets, TLC

(***************************************************************************)
(* Bounds of the model.                                                    *)
(***************************************************************************)
\* resolution of a point in time: ticks per second (the code has 10^9)
TicksPerSecond == 2
\* longest batch the playback source returns (the code asks for Limit: 50)
MaxBatch == 2
\* number of concurrently running handler goroutines
NumTasks == 2
\* fetches issued in one behaviour of the concurrent specification
MaxFetches == 2
\* Authorize calls in one behaviour
MaxAuthorize == 2
\* days with fetched plays in one call of save
MaxDays == 2
\* v3 requests in one behaviour, one handler goroutine each
NumCallers == 2
\* v3 singleflight calls in one behaviour
MaxCalls == 2

Tasks == 1..NumTasks

(***************************************************************************)
(* Time.  A time.Time is a number of ticks since the epoch; the zero       *)
(* time.Time (IsZero) lies before every real time.                         *)
(***************************************************************************)
ZeroTime == -1

Sec(s) == s * TicksPerSecond

\* item.PlayedAt.Format(time.RFC3339Nano): the seconds field, then the
\* fraction, which the layout prints only when it is not zero
FormatRFC3339Nano(t) ==
    [sec |-> t \div TicksPerSecond, frac |-> t % TicksPerSecond]

\* time.Parse(time.RFC3339, ts): Parse accepts a fractional second after the
\* seconds field even though the layout has none
ParseRFC3339(ts) == ts.sec * TicksPerSecond + ts.frac

(***************************************************************************)
(* Strings that are searched are sequences of characters.                  *)
(***************************************************************************)
ToLowerChar(c) ==
    CASE c = "A" -> "a" [] c = "B" -> "b" [] c = "E" -> "e"
      [] c = "H" -> "h" [] c = "N" -> "n" [] c = "T" -> "t"
      [] OTHER -> c

\* strings.ToLower
ToLower(s) == [i \in 1..Len(s) |-> ToLowerChar(s[i])]

\* strings.Contains
Contains(s, sub) ==
    \E i \in 0..(Len(s) - Len(sub)) :
        \A j \in 1..Len(sub) : s[i + j] = sub[j]

(***************************************************************************)
(* What the playback source knows: tracks, and the items it returns.       *)
(***************************************************************************)
Eno == [ID |-> "a1", URI |-> "spotify:artist:a1", Name |-> <<"E", "n", "o">>]
Beatles == [ID |-> "a2", URI |-> "spotify:artist:a2", Name |-> <<"B", "e", "a", "t">>]

Air ==
    [ID |-> "t1", URI |-> "spotify:track:t1", Type |-> "track",
     Name |-> <<"A", "i", "r">>, Duration |-> Sec(200), Artists |-> <<Eno>>]
Help ==
    [ID |-> "t2", URI |-> "spotify:track:t2", Type |-> "track",
     Name |-> <<"H", "e", "l", "p">>, Duration |-> Sec(100), Artists |-> <<Beatles>>]
\* t1 as the source reports it after a re-release: other name, length, artists
AirAgain ==
    [ID |-> "t1", URI |-> "spotify:track:t1", Type |-> "track",
     Name |-> <<"A", "i", "r", "2">>, Duration |-> Sec(300), Artists |-> <<Eno, Beatles>>]

SourceTracks == {Air, Help, AirAgain}

PlaybackContext == [Type |-> "album", URI |-> "spotify:album:x"]

\* spotify.RecentlyPlayedItem
Item(t, track) == [PlayedAt |-> t, Track |-> track, PlaybackContext |-> PlaybackContext]

\* the plays the source can report: three of one track, two plays reported
\* for the same instant, one inside a second, one after the re-release
Items ==
    { Item(Sec(0), Air), Item(Sec(150), Air), Item(Sec(450), Air),
      Item(Sec(150), Help), Item(Sec(150) + 1, Help), Item(Sec(450), AirAgain) }

RECURSIVE SeqsUpTo(_, _)
SeqsUpTo(S, n) ==
    IF n = 0 THEN {<<>>}
    ELSE LET shorter == SeqsUpTo(S, n - 1)
         IN  shorter \cup {Append(s, x) : s \in {q \in shorter : Len(q) = n - 1}, x \in S}

\* what one PlayerRecentlyPlayedOpt call can return
Batches == SeqsUpTo(Items, MaxBatch)

(***************************************************************************)
(* earbugv4.Store (earbugv3.Store has the flat Token only).                *)
(* A Go map is nil or initialised; a nil map reads as empty and panics on  *)
(* assignment.  Auth is a pointer, nil or not.                             *)
(***************************************************************************)
EmptyMap == [k \in {} |-> 0]

EmptyAuth == [ClientId |-> "", ClientSecret |-> "", Token |-> ""]

\* the zero value earbugv4.Store{}
ZeroStore ==
    [Playbacks |-> EmptyMap, PlaybacksNil |-> TRUE,
     Tracks |-> EmptyMap, TracksNil |-> TRUE,
     Auth |-> EmptyAuth, AuthNil |-> TRUE,
     Token |-> ""]

\* the store initData builds when no initial data is configured
FreshStore ==
    [Playbacks |-> EmptyMap, PlaybacksNil |-> FALSE,
     Tracks |-> EmptyMap, TracksNil |-> FALSE,
     Auth |-> EmptyAuth, AuthNil |-> FALSE,
     Token |-> ""]

Put(m, k, v) == [x \in (DOMAIN m) \cup {k} |-> IF x = k THEN v ELSE m[x]]

(***************************************************************************)
(* Ingest: the merge loop of hUpdate / UpdateRecentlyPlayed /              *)
(* userData.update, one raw event at a time.                               *)
(***************************************************************************)
PlaybackOf(item) ==
    [TrackId |-> item.Track.ID, TrackUri |-> item.Track.URI,
     ContextType |-> item.PlaybackContext.Type,
     ContextUri |-> item.PlaybackContext.URI]

TrackOf(item) ==
    [Id |-> item.Track.ID, Uri |-> item.Track.URI, Type |-> item.Track.Type,
     Name |-> item.Track.Name, Duration |-> item.Track.Duration,
     Artists |-> [i \in 1..Len(item.Track.Artists) |->
                    [Id |-> item.Track.Artists[i].ID,
                     Uri |-> item.Track.Artists[i].URI,
                     Name |-> item.Track.Artists[i].Name]]]

\* InsertPlayback with added++ moved out of the if: every item is counted
InsertPlaybackCountsAll(r, item) ==
    LET ts == FormatRFC3339Nano(item.PlayedAt)
    IN  IF r.panic THEN r
        ELSE IF ts \in DOMAIN r.store.Playbacks THEN [r EXCEPT !.added = @ + 1]
        ELSE IF r.store.PlaybacksNil THEN [r EXCEPT !.added = @ + 1, !.panic = TRUE]
        ELSE [r EXCEPT !.added = @ + 1,
                       !.store.Playbacks = Put(@, ts, PlaybackOf(item))]

\* if _, ok := store.Playbacks[ts]; !ok { added++; store.Playbacks[ts] = ... }
\* r is [store, added, panic]; an assignment into a nil map panics
InsertPlayback(r, item) ==
    LET ts == FormatRFC3339Nano(item.PlayedAt)
    IN  IF r.panic \/ ts \in DOMAIN r.store.Playbacks THEN r
        ELSE IF r.store.PlaybacksNil THEN [r EXCEPT !.added = @ + 1, !.panic = TRUE]
        ELSE [r EXCEPT !.added = @ + 1,
                       !.store.Playbacks = Put(@, ts, PlaybackOf(item))]

\* InsertTrack that stores the track of every event
InsertTrackOverwrites(r, item) ==
    IF r.panic THEN r
    ELSE IF r.store.TracksNil THEN [r EXCEPT !.panic = TRUE]
    ELSE [r EXCEPT !.store.Tracks = Put(@, item.Track.ID, TrackOf(item))]

\* if _, ok := store.Tracks[id]; !ok { store.Tracks[id] = t }
InsertTrack(r, item) ==
    IF r.panic \/ item.Track.ID \in DOMAIN r.store.Tracks THEN r
    ELSE IF r.store.TracksNil THEN [r EXCEPT !.panic = TRUE]
    ELSE [r EXCEPT !.store.Tracks = Put(@, item.Track.ID, TrackOf(item))]

\* an iteration that stores the playback and leaves the track out
IngestItemPlaybackOnly(r, item) == InsertPlayback(r, item)

\* one iteration of the loop body
IngestItem(r, item) == InsertTrack(InsertPlayback(r, item), item)

RECURSIVE IngestFrom(_, _, _)
IngestFrom(r, items, i) ==
    IF i > Len(items) THEN r ELSE IngestFrom(IngestItem(r, items[i]), items, i + 1)

\* Ingest that reports the length of the batch
IngestCountsBatch(s, items) ==
    [IngestFrom([store |-> s, added |-> 0, panic |-> FALSE], items, 1)
        EXCEPT !.added = Len(items)]

\* for _, item := range items { ... }
Ingest(s, items) == IngestFrom([store |-> s, added |-> 0, panic |-> FALSE], items, 1)

(***************************************************************************)
(* Report: getPlaybacks.                                                   *)
(***************************************************************************)
\* getPlaybacksOptions; an empty string filter and a zero time bound are unset
NoFilter == <<>>
AllOptions == [From |-> ZeroTime, To |-> ZeroTime, Artist |-> NoFilter, Track |-> NoFilter]

\* a range test that also drops the records at the bounds
InRangeExclusive(o, startTime) ==
    /\ ~(o.From # ZeroTime /\ o.From >= startTime)
    /\ ~(o.To # ZeroTime /\ o.To <= startTime)

\* the range test at the head of the loop body
InRange(o, startTime) ==
    /\ ~(o.From # ZeroTime /\ o.From > startTime)
    /\ ~(o.To # ZeroTime /\ o.To < startTime)

\* Matches with the names compared as they are stored
MatchesCaseSensitive(o, track) ==
    /\ ~(o.Track # NoFilter /\ ~Contains(track.Name, o.Track))
    /\ \/ o.Artist = NoFilter
       \/ \E i \in 1..Len(track.Artists) :
              Contains(track.Artists[i].Name, o.Artist)

\* the track and artist tests of the loop body, on a resolved track
Matches(o, track) ==
    /\ ~(o.Track # NoFilter /\ ~Contains(ToLower(track.Name), ToLower(o.Track)))
    /\ \/ o.Artist = NoFilter
       \/ \E i \in 1..Len(track.Artists) :
              Contains(ToLower(track.Artists[i].Name), ToLower(o.Artist))

\* sort.Slice(plays, StartTime.After): most recent first
RECURSIVE SortDesc(_)
SortDesc(keys) ==
    IF keys = {} THEN <<>>
    ELSE LET top == CHOOSE k \in keys :
                        \A x \in keys : ParseRFC3339(k) >= ParseRFC3339(x)
         IN  <<top>> \o SortDesc(keys \ {top})

\* PlaybackTimeAt with the gap taken to the record after, not the one before
PlaybackTimeGapAfter(sorted, s, i) ==
    LET dur == s.Tracks[s.Playbacks[sorted[i]].TrackId].Duration
    IN  IF i < Len(sorted)
        THEN LET gap == ParseRFC3339(sorted[i]) - ParseRFC3339(sorted[i + 1])
             IN  IF gap < dur THEN gap ELSE dur
        ELSE dur

\* PlaybackTimeAt with no clipping: every record gets its nominal duration
PlaybackTimeNominal(sorted, s, i) ==
    s.Tracks[s.Playbacks[sorted[i]].TrackId].Duration

\* the last loop: the nominal duration, clipped by the gap to the record before
PlaybackTimeAt(sorted, s, i) ==
    LET dur == s.Tracks[s.Playbacks[sorted[i]].TrackId].Duration
    IN  IF i > 1
        THEN LET gap == ParseRFC3339(sorted[i - 1]) - ParseRFC3339(sorted[i])
             IN  IF gap < dur THEN gap ELSE dur
        ELSE dur

\* the whole function: [panic, plays]; track.Artists on the nil track of a
\* playback whose TrackId is not in Tracks is a nil dereference
getPlaybacks(s, o) ==
    LET ranged == {ts \in DOMAIN s.Playbacks : InRange(o, ParseRFC3339(ts))}
        dangling == {ts \in ranged : s.Playbacks[ts].TrackId \notin DOMAIN s.Tracks}
        kept == {ts \in ranged \ dangling :
                    Matches(o, s.Tracks[s.Playbacks[ts].TrackId])}
        sorted == SortDesc(kept)
    IN  IF dangling # {} THEN [panic |-> TRUE, plays |-> <<>>]
        ELSE [panic |-> FALSE,
              plays |-> [i \in 1..Len(sorted) |->
                           [StartTime |-> ParseRFC3339(sorted[i]),
                            PlaybackTime |-> PlaybackTimeAt(sorted, s, i),
                            Track |-> s.Tracks[s.Playbacks[sorted[i]].TrackId]]]]

(***************************************************************************)
(* Codec: proto.Marshal / proto.Unmarshal and the zstd stream around them. *)
(***************************************************************************)
\* proto.Marshal(&store): the entries of the maps, the Auth message when the
\* pointer is set, the flat token
Marshal(s) ==
    [Playbacks |-> s.Playbacks, Tracks |-> s.Tracks,
     HasAuth |-> ~s.AuthNil, Auth |-> IF s.AuthNil THEN EmptyAuth ELSE s.Auth,
     Token |-> s.Token]

\* proto.Unmarshal(b, &store): a map field without entries on the wire stays nil
Unmarshal(w) ==
    [Playbacks |-> w.Playbacks, PlaybacksNil |-> (DOMAIN w.Playbacks = {}),
     Tracks |-> w.Tracks, TracksNil |-> (DOMAIN w.Tracks = {}),
     Auth |-> IF w.HasAuth THEN w.Auth ELSE EmptyAuth, AuthNil |-> ~w.HasAuth,
     Token |-> w.Token]

\* io.Copy(zw, bytes.NewReader(b)) followed by zw.Close(): a complete frame
ZstdFrame(b) == [frame |-> "zstd", complete |-> TRUE, payload |-> b]

\* the same stream cut short: the copy failed part way, or zw was never closed
ZstdTruncated(b) == [frame |-> "zstd", complete |-> FALSE, payload |-> b]

\* bytes that were never passed through a zstd writer
RawBytes(b) == [frame |-> "none", complete |-> TRUE, payload |-> b]

\* zstd.NewReader + io.ReadAll + proto.Unmarshal, as New / initData / read do
Import(bytes) ==
    IF bytes.frame = "zstd" /\ bytes.complete
    THEN [err |-> FALSE, store |-> Unmarshal(bytes.payload)]
    ELSE [err |-> TRUE, store |-> ZeroStore]

\* the object under the data key: absent, or its bytes
NoObject == [exists |-> FALSE, bytes |-> RawBytes(Marshal(ZeroStore))]
Object(bytes) == [exists |-> TRUE, bytes |-> bytes]

(***************************************************************************)
(* State.                                                                  *)
(***************************************************************************)
VARIABLES
    build,      \* v4: which server this is, "app" or "serve"
    phase,      \* v4: "boot" before New, then "serving", or "failed" when New returned an error
    keyed,      \* v4: whether a data bucket and key are configured
    blob,       \* the object under the configured data key
    store,      \* v4: App.store / Server.store
    spot,       \* v4: App.spot / Server.spot, the API client and the token it carries
    authState,  \* v4: App.authState / Server.authState
    issued,     \* v4: how many state tokens NewAuthState has handed out
    last,       \* v4: what the most recently finished handler returned
    task,       \* v4: the handler goroutines that run step by step
    fetches,    \* v4: PlayerRecentlyPlayedOpt calls issued so far
    objs,       \* v3: the object <user>.pb.zstd of each user
    cache,      \* v3: Server.cache, the userData kept per user
    single,     \* v3: Server.single, the call in flight per key (0: none)
    calls,      \* v3: every singleflight call made so far
    caller,     \* v3: the requests being served, one per handler goroutine
    loop,       \* the context of the process, its timer loops and its exit
    saver       \* the first program: Client.plays, the bucket and a call of save

v4vars == <<phase, keyed, blob, store, spot, authState, issued, last, task, fetches>>
v3vars == <<objs, cache, single, calls, caller>>
vars == <<build, v4vars, v3vars, loop, saver>>

\* the timer loops: updateLoop and exportLoop of the server, and the loop of
\* the update and export commands
Loops == {"updateLoop", "exportLoop", "cmdLoop"}

\* a loop that is not started: no goroutine, nothing in its channels
LoopOff == [pc |-> "off", init |-> FALSE, tick |-> FALSE, fired |-> 0,
            ran |-> <<>>, opctx |-> "none"]

\* no export on the way out
NoFinal == [pc |-> "none", atCancel |-> {}, payload |-> {}]

\* a process whose loops are not looked at
NoLoops == [ctx |-> "live", proc |-> [l \in Loops |-> LoopOff], final |-> NoFinal]

\* the days the fetched plays fall on
Days == 1..MaxDays

\* the first program at rest: no play fetched, nothing written, save not called
NoSave ==
    [pc |-> "none", plays |-> {}, bkt |-> {}, fetched |-> {}, failed |-> {},
     perDay |-> {}, visited |-> {}, success |-> <<>>, cap |-> 0,
     writer |-> [d \in Days |-> "off"]]

\* *spotify.Client: nil, or a client built on a token ("" is no credential)
NilClient == [nil |-> TRUE, token |-> ""]
Client(token) == [nil |-> FALSE, token |-> token]

\* atomic.Pointer[AuthState]: nil until the first Authorize
NoAuthState == [nil |-> TRUE, state |-> 0, ClientId |-> "", ClientSecret |-> ""]

Idle == [pc |-> "idle"]
NoTasks == [p \in Tasks |-> Idle]

\* the users of a v3 server and its handler goroutines
Users == {"u1", "u2"}
Callers == 1..NumCallers

\* updateStats
NoStats == [oldTracks |-> 0, newTracks |-> 0, oldPlays |-> 0, newPlays |-> 0]

\* what fn hands to singleflight: (stats, nil), (nil, nil), (nil, err), or a panic
NoResult == [kind |-> "none", err |-> "", stats |-> NoStats]

\* a userData: the zero value, and Server.cache without an entry
ZeroUserData == [present |-> TRUE, once |-> FALSE, store |-> ZeroStore, client |-> NilClient]
NoUserData == [ZeroUserData EXCEPT !.present = FALSE]

IdleCaller ==
    [pc |-> "idle", kind |-> "none", user |-> "", c |-> 0, entered |-> 0,
     seen |-> [c |-> 0, res |-> NoResult], resp |-> <<>>]

\* the v3 variables in a v4 process
NoV3 ==
    /\ objs = [u \in Users |-> NoObject]
    /\ cache = [u \in Users |-> NoUserData]
    /\ single = [u \in Users |-> 0]
    /\ calls = <<>>
    /\ caller = [p \in Callers |-> IdleCaller]


(***************************************************************************)
(* Stores a serving process can hold once New has returned and the user    *)
(* has authorized: a fresh one (serve without initial data), and what      *)
(* Import yields for a snapshot with and without recorded plays.           *)
(***************************************************************************)
Authorized == [ClientId |-> "id", ClientSecret |-> "secret", Token |-> "tokA"]

AuthorizedFresh == [FreshStore EXCEPT !.Auth = Authorized]

SeedItem == Item(Sec(0), Help)

SeedStore == Ingest(AuthorizedFresh, <<SeedItem>>).store

ServingStores(b) ==
    {Unmarshal(Marshal(SeedStore)), Unmarshal(Marshal(AuthorizedFresh))}
        \cup (IF b = "serve" THEN {AuthorizedFresh} ELSE {})

(***************************************************************************)
(* v4 handlers run to completion in one step (no other goroutine runs).    *)
(***************************************************************************)
\* hUpdate / UpdateRecentlyPlayed when the fetch returned items
\* an item of the batch whose timestamp or track id is stored already, with
\* other content than the item has
Clashes(s, items) ==
    \E i \in 1..Len(items) :
        LET ts == FormatRFC3339Nano(items[i].PlayedAt)
            id == items[i].Track.ID
        IN  \/ ts \in DOMAIN s.Playbacks /\ s.Playbacks[ts] # PlaybackOf(items[i])
            \/ id \in DOMAIN s.Tracks /\ s.Tracks[id] # TrackOf(items[i])

HUpdate(items) ==
    /\ phase = "serving"
    /\ ~spot.nil /\ spot.token # ""
    /\ LET r == Ingest(store, items)
       IN  /\ store' = r.store
           /\ last' = [op |-> "update", err |-> FALSE, panic |-> r.panic,
                       n |-> Len(items), added |-> r.added,
                       first |-> (last.op = "New"), clash |-> Clashes(store, items),
                       fetched |-> TRUE]
    /\ UNCHANGED <<build, phase, keyed, blob, spot, authState, issued, task, fetches>>
    /\ UNCHANGED <<v3vars, loop, saver>>

\* a failed fetch that is answered like an empty batch
HUpdateFetchFailsUnreported ==
    /\ phase = "serving"
    /\ last' = [op |-> "update", err |-> FALSE, panic |-> spot.nil,
                n |-> 0, added |-> 0, first |-> (last.op = "New"), clash |-> FALSE,
                fetched |-> FALSE]
    /\ UNCHANGED <<build, phase, keyed, blob, store, spot, authState, issued, task, fetches>>
    /\ UNCHANGED <<v3vars, loop, saver>>

\* hUpdate / UpdateRecentlyPlayed when the fetch failed: the error is returned
\* before the loop; a nil client is a nil dereference
HUpdateFetchFails ==
    /\ phase = "serving"
    /\ last' = [op |-> "update", err |-> ~spot.nil, panic |-> spot.nil,
                n |-> 0, added |-> 0, first |-> (last.op = "New"), clash |-> FALSE,
                fetched |-> FALSE]
    /\ UNCHANGED <<build, phase, keyed, blob, store, spot, authState, issued, task, fetches>>
    /\ UNCHANGED <<v3vars, loop, saver>>

ReportOptions ==
    [From : {ZeroTime, Sec(150)}, To : {ZeroTime, Sec(150)},
     Artist : {NoFilter, <<"e", "n", "o">>}, Track : {NoFilter, <<"H", "E">>}]

\* handlePlaybacks / handleArtists / handleTracks: plays := getPlaybacks(ctx, o)
Report(o) ==
    /\ phase = "serving"
    /\ LET r == getPlaybacks(store, o)
       IN  last' = [op |-> "report", err |-> FALSE, panic |-> r.panic,
                    o |-> o, plays |-> r.plays]
    /\ UNCHANGED <<build, phase, keyed, blob, store, spot, authState, issued, task, fetches>>
    /\ UNCHANGED <<v3vars, loop, saver>>

Init ==
    /\ build \in {"app", "serve"}
    /\ phase = "serving"
    /\ keyed = TRUE
    /\ blob = NoObject
    /\ store \in ServingStores(build)
    /\ spot = Client(store.Auth.Token)
    /\ authState = NoAuthState
    /\ issued = 0
    /\ last = [op |-> "none"]
    /\ task = NoTasks
    /\ fetches = 0
    /\ NoV3
    /\ loop = NoLoops
    /\ saver = NoSave

Next ==
    \/ \E items \in Batches : HUpdate(items)
    \/ HUpdateFetchFails
    \/ \E o \in ReportOptions : Report(o)

Spec == Init /\ [][Next]_vars

(***************************************************************************)
(* v4 handlers step by step, NumTasks goroutines at a time (timer loops    *)
(* and on-demand requests alike: updateLoop and exportLoop call the        *)
(* handlers through a.update).  getPlaybacks, hExport's marshal, hAuthorize*)
(* and hAuthCallback touch the store inside one storemu critical section   *)
(* each, which is one step here; hUpdate / UpdateRecentlyPlayed never take *)
(* storemu, so each of their map accesses is a step of its own.            *)
(***************************************************************************)
\* the plays the source reports while handlers race
RaceItems == {Item(Sec(0), Air), Item(Sec(150), Help)}
RaceBatches == SeqsUpTo(RaceItems, MaxBatch)

Merging(p) == task[p].pc \in {"playback", "track"}

\* storemu is held by the callback between its two assignments
StoremuFree == \A q \in Tasks : task[q].pc # "cbClient"

\* items, err := spot.PlayerRecentlyPlayedOpt(ctx, ...): a.spot is read, with
\* no lock, and the call is issued (held is kept for the claims only)
UpdCall(p) ==
    /\ phase = "serving" /\ task[p].pc = "idle"
    /\ ~spot.nil /\ spot.token # ""
    /\ fetches < MaxFetches
    /\ fetches' = fetches + 1
    /\ task' = [task EXCEPT ![p] = [pc |-> "fetching", client |-> spot,
                                     held |-> store.Auth.Token]]
    /\ UNCHANGED <<build, phase, keyed, blob, store, spot, authState, issued, last>>
    /\ UNCHANGED <<v3vars, loop, saver>>

\* the call returns an error: the handler reports it and returns
UpdFetchFailed(p) ==
    /\ phase = "serving" /\ task[p].pc = "fetching"
    /\ task' = [task EXCEPT ![p] = Idle]
    /\ last' = [op |-> "update", err |-> TRUE, panic |-> FALSE, n |-> 0, added |-> 0]
    /\ UNCHANGED <<build, phase, keyed, blob, store, spot, authState, issued, fetches>>
    /\ UNCHANGED <<v3vars, loop, saver>>

\* the call returns items: the loop starts (pre is kept for the claims only)
UpdFetched(p, items) ==
    /\ phase = "serving" /\ task[p].pc = "fetching"
    /\ IF items = <<>>
       THEN /\ task' = [task EXCEPT ![p] = Idle]
            /\ last' = [op |-> "update", err |-> FALSE, panic |-> FALSE,
                        n |-> 0, added |-> 0]
       ELSE /\ task' = [task EXCEPT ![p] =
                          [pc |-> "playback", items |-> items, i |-> 1,
                           added |-> 0, pre |-> store]]
            /\ UNCHANGED last
    /\ UNCHANGED <<build, phase, keyed, blob, store, spot, authState, issued, fetches>>
    /\ UNCHANGED <<v3vars, loop, saver>>

\* the first if of the loop body, for items[i]
UpdInsertPlayback(p) ==
    /\ phase = "serving" /\ task[p].pc = "playback"
    /\ LET r == InsertPlayback([store |-> store, added |-> task[p].added,
                                panic |-> FALSE], task[p].items[task[p].i])
       IN  /\ store' = r.store
           /\ IF r.panic
              THEN /\ task' = [task EXCEPT ![p] = Idle]
                   /\ last' = [op |-> "update", err |-> FALSE, panic |-> TRUE,
                               n |-> Len(task[p].items), added |-> r.added]
              ELSE /\ task' = [task EXCEPT ![p].pc = "track", ![p].added = r.added]
                   /\ UNCHANGED last
    /\ UNCHANGED <<build, phase, keyed, blob, spot, authState, issued, fetches>>
    /\ UNCHANGED <<v3vars, loop, saver>>

\* the second if of the loop body, for items[i]; after the last item the
\* handler responds
UpdInsertTrack(p) ==
    /\ phase = "serving" /\ task[p].pc = "track"
    /\ LET r == InsertTrack([store |-> store, added |-> task[p].added,
                             panic |-> FALSE], task[p].items[task[p].i])
       IN  /\ store' = r.store
           /\ IF r.panic \/ task[p].i = Len(task[p].items)
              THEN /\ task' = [task EXCEPT ![p] = Idle]
                   /\ last' = [op |-> "update", err |-> FALSE, panic |-> r.panic,
                               n |-> Len(task[p].items), added |-> r.added]
              ELSE /\ task' = [task EXCEPT ![p].pc = "playback", ![p].i = @ + 1]
                   /\ UNCHANGED last
    /\ UNCHANGED <<build, phase, keyed, blob, spot, authState, issued, fetches>>
    /\ UNCHANGED <<v3vars, loop, saver>>

\* what a reader that runs now sees of the batch q is merging: some but not
\* all of the entries the batch adds
SeesPartOf(q) ==
    LET post == Ingest(task[q].pre, task[q].items).store
        newP == DOMAIN post.Playbacks \ DOMAIN task[q].pre.Playbacks
        newT == DOMAIN post.Tracks \ DOMAIN task[q].pre.Tracks
        seenP == newP \cap DOMAIN store.Playbacks
        seenT == newT \cap DOMAIN store.Tracks
    IN  ~ \/ seenP = {} /\ seenT = {}
          \/ seenP = newP /\ seenT = newT

\* what a reader that runs now sees of the batch q is merging: one of its
\* playbacks, and not the track of that playback
SeesOrphanOf(q) ==
    \E i \in 1..Len(task[q].items) :
        LET ts == FormatRFC3339Nano(task[q].items[i].PlayedAt)
        IN  /\ ts \in DOMAIN store.Playbacks
            /\ store.Playbacks[ts].TrackId \notin DOMAIN store.Tracks

Observation(op, panic) ==
    [op |-> op, err |-> FALSE, panic |-> panic,
     during |-> \E q \in Tasks : Merging(q),
     partial |-> \E q \in Tasks : Merging(q) /\ SeesPartOf(q),
     orphan |-> \E q \in Tasks : Merging(q) /\ SeesOrphanOf(q)]

\* getPlaybacks, between storemu.Lock and Unlock
RptRead(p, o) ==
    /\ phase = "serving" /\ task[p].pc = "idle"
    /\ StoremuFree
    /\ last' = Observation("report", getPlaybacks(store, o).panic)
    /\ UNCHANGED <<build, phase, keyed, blob, store, spot, authState, issued, task, fetches>>
    /\ UNCHANGED <<v3vars, loop, saver>>

\* hExport / Export: proto.Marshal(&store) between storemu.Lock and Unlock,
\* then the writer on the data key is opened
ExpMarshal(p) ==
    /\ phase = "serving" /\ task[p].pc = "idle"
    /\ StoremuFree
    /\ task' = [task EXCEPT ![p] = [pc |-> "writing", b |-> Marshal(store),
                                     client |-> spot]]
    /\ last' = Observation("marshal", FALSE)
    /\ UNCHANGED <<build, phase, keyed, blob, store, spot, authState, issued, fetches>>
    /\ UNCHANGED <<v3vars, loop, saver>>

\* the copy into the zstd writer and both Close calls went through
ExpWritten(p) ==
    /\ phase = "serving" /\ task[p].pc = "writing"
    /\ blob' = Object(ZstdFrame(task[p].b))
    /\ task' = [task EXCEPT ![p] = Idle]
    /\ last' = [op |-> "export", err |-> FALSE, panic |-> FALSE]
    /\ UNCHANGED <<build, phase, keyed, store, spot, authState, issued, fetches>>
    /\ UNCHANGED <<v3vars, loop, saver>>

\* two goroutines in a Go map at once, one of them writing: the runtime may
\* notice ("concurrent map writes", "concurrent map read and map write") and
\* kill the process; when it does not, the steps above are what happens
MapRaceFatal(p) ==
    /\ phase = "serving" /\ Merging(p)
    /\ \E q \in Tasks \ {p} : task[q].pc \in {"idle", "playback", "track"}
    /\ phase' = "crashed"
    /\ UNCHANGED <<build, keyed, blob, store, spot, authState, issued, last, task, fetches>>
    /\ UNCHANGED <<v3vars, loop, saver>>

NextRace ==
    \E p \in Tasks :
        \/ UpdCall(p)
        \/ UpdFetchFailed(p)
        \/ \E items \in RaceBatches : UpdFetched(p, items)
        \/ UpdInsertPlayback(p)
        \/ UpdInsertTrack(p)
        \/ RptRead(p, AllOptions)
        \/ ExpMarshal(p)
        \/ ExpWritten(p)
        \/ MapRaceFatal(p)

SpecRace == Init /\ [][NextRace]_vars

(***************************************************************************)
(* v4 from process start: New loads the data object, the handlers run to   *)
(* completion, Export writes the object back, and the process can be       *)
(* started again on what was written.                                      *)
(***************************************************************************)
\* a store written by a release that kept the token in the flat field
LegacyStore == [ZeroStore EXCEPT !.Token = "tokA"]

\* an Auth record without a token: the client is configured, nobody logged in
Unauthorized == [FreshStore EXCEPT !.Auth = [Authorized EXCEPT !.Token = ""]]

\* a store that went from the flat field to the Auth record: the record has
\* no token and the flat field has the old one, or both hold a token
LegacyUnderAuth == [Unauthorized EXCEPT !.Token = "tokL"]
BothTokens == [AuthorizedFresh EXCEPT !.Token = "tokL"]

BootObjects ==
    {NoObject, Object(RawBytes(Marshal(SeedStore)))}
        \cup {Object(ZstdFrame(Marshal(s))) :
                s \in {SeedStore, AuthorizedFresh, Unauthorized, LegacyStore,
                       LegacyUnderAuth, BothTokens}}

\* the load in New: [err, panic, store, spot]
LoadApp(configured, obj) ==
    LET r == IF configured /\ obj.exists THEN Import(obj.bytes)
             ELSE [err |-> TRUE, store |-> ZeroStore]
    IN  IF r.err
        THEN [err |-> TRUE, panic |-> FALSE, store |-> ZeroStore, spot |-> NilClient]
        ELSE IF r.store.AuthNil
        THEN [err |-> FALSE, panic |-> TRUE, store |-> r.store, spot |-> NilClient]
        ELSE [err |-> FALSE, panic |-> FALSE, store |-> r.store,
              spot |-> Client(r.store.Auth.Token)]

\* initData: [err, store, spot]
initData(configured, obj) ==
    IF configured
    THEN LET r == IF obj.exists THEN Import(obj.bytes)
                  ELSE [err |-> TRUE, store |-> ZeroStore]
             rawToken == IF ~r.store.AuthNil /\ r.store.Auth.Token # ""
                         THEN r.store.Auth.Token ELSE r.store.Token
         IN  IF r.err THEN [err |-> TRUE, store |-> ZeroStore, spot |-> NilClient]
             ELSE IF rawToken = ""
             THEN [err |-> TRUE, store |-> r.store, spot |-> NilClient]
             ELSE [err |-> FALSE, store |-> r.store, spot |-> Client(rawToken)]
    ELSE [err |-> FALSE, store |-> FreshStore, spot |-> Client("")]

\* main.New: any load error is returned and the process does not serve
NewApp ==
    /\ build = "app" /\ phase = "boot"
    /\ LET r == LoadApp(keyed, blob)
       IN  /\ phase' = IF r.err \/ r.panic THEN "failed" ELSE "serving"
           /\ store' = r.store
           /\ spot' = r.spot
           /\ last' = [op |-> "New", err |-> r.err, panic |-> r.panic,
                       loaded |-> ~r.err]
    /\ UNCHANGED <<build, keyed, blob, authState, issued, task, fetches>>
    /\ UNCHANGED <<v3vars, loop, saver>>

\* serve.New: s.initData(ctx, c.bucket, c.key) and its error is dropped
NewServe ==
    /\ build = "serve" /\ phase = "boot"
    /\ LET r == initData(keyed, blob)
       IN  /\ phase' = "serving"
           /\ store' = r.store
           /\ spot' = r.spot
           /\ last' = [op |-> "New", err |-> FALSE, panic |-> FALSE,
                       loaded |-> ~r.err]
    /\ UNCHANGED <<build, keyed, blob, authState, issued, task, fetches>>
    /\ UNCHANGED <<v3vars, loop, saver>>

\* where a store write can fail
WriteFailures == {"none", "open", "copy", "zwClose", "owClose"}

\* NewWriter .. io.Copy and the deferred zw.Close(), ow.Close(): [err, published,
\* obj].  Only the errors of the open and of the copy are looked at; when the
\* copy or zw.Close failed, ow.Close still runs and commits what it was given
\* when commit holds.
WriteObject(b, obj, fail, commit) ==
    CASE fail = "none" ->
            [err |-> FALSE, published |-> TRUE, obj |-> Object(ZstdFrame(b))]
      [] fail = "open" ->
            [err |-> TRUE, published |-> FALSE, obj |-> obj]
      [] fail = "copy" ->
            [err |-> TRUE, published |-> commit,
             obj |-> IF commit THEN Object(ZstdTruncated(b)) ELSE obj]
      [] fail = "zwClose" ->
            [err |-> FALSE, published |-> commit,
             obj |-> IF commit THEN Object(ZstdTruncated(b)) ELSE obj]
      [] fail = "owClose" ->
            [err |-> FALSE, published |-> FALSE, obj |-> obj]

\* App.hExport: the snapshot goes to the data key
HExport(fail, commit) ==
    /\ build = "app" /\ phase = "serving"
    /\ LET w == WriteObject(Marshal(store), blob, fail, commit)
       IN  /\ blob' = w.obj
           /\ last' = [op |-> "export", err |-> w.err, panic |-> FALSE,
                       dest |-> "key", fail |-> fail, published |-> w.published,
                       content |-> w.obj.bytes]
    /\ UNCHANGED <<build, phase, keyed, store, spot, authState, issued, task, fetches>>
    /\ UNCHANGED <<v3vars, loop, saver>>

\* Server.Export with a bucket in the request
ExportToKey(fail, commit) ==
    /\ build = "serve" /\ phase = "serving"
    /\ LET w == WriteObject(Marshal(store), blob, fail, commit)
       IN  /\ blob' = w.obj
           /\ last' = [op |-> "export", err |-> w.err, panic |-> FALSE,
                       dest |-> "key", fail |-> fail, published |-> w.published,
                       content |-> w.obj.bytes]
    /\ UNCHANGED <<build, phase, keyed, store, spot, authState, issued, task, fetches>>
    /\ UNCHANGED <<v3vars, loop, saver>>

\* Server.Export without a bucket: res.Msg.Content = b
ExportToCaller ==
    /\ build = "serve" /\ phase = "serving"
    /\ last' = [op |-> "export", err |-> FALSE, panic |-> FALSE,
                dest |-> "caller", fail |-> "none", published |-> FALSE,
                content |-> RawBytes(Marshal(store))]
    /\ UNCHANGED <<build, phase, keyed, blob, store, spot, authState, issued, task, fetches>>
    /\ UNCHANGED <<v3vars, loop, saver>>

(***************************************************************************)
(* v4 authorization: Authorize stores a new pending AuthState, the         *)
(* callback exchanges the code and installs the token and the client.      *)
(***************************************************************************)
\* the state of the n-th NewAuthState: 256 random bytes, distinct per call
NewAuthState(n, clientID, clientSecret) ==
    [nil |-> FALSE, state |-> n, ClientId |-> clientID, ClientSecret |-> clientSecret]

\* json.Marshal of the token the exchange returns for the code of attempt n
TokenOf(n) == "tok" \o ToString(n)

\* the locked closure of hAuthorize: [store, clientID, clientSecret]
ResolveApp(s, id, secret) ==
    LET keepId == id = "" /\ ~s.AuthNil /\ s.Auth.ClientId # ""
        s1 == IF keepId THEN s
              ELSE [s EXCEPT !.AuthNil = FALSE, !.Auth.ClientId = id]
        keepSecret == secret = "" /\ ~s1.AuthNil /\ s1.Auth.ClientSecret # ""
        s2 == IF keepSecret THEN s1
              ELSE [s1 EXCEPT !.Auth.ClientSecret = secret]
    IN  [store |-> s2,
         clientID |-> IF keepId THEN s.Auth.ClientId ELSE id,
         clientSecret |-> IF keepSecret THEN s1.Auth.ClientSecret ELSE secret]

\* the locked closure of Authorize: [panic, store, clientID, clientSecret];
\* an empty candidate reads s.store.Auth without a nil check
ResolveServe(s, id, secret) ==
    IF id = "" /\ s.AuthNil
    THEN [panic |-> TRUE, store |-> s, clientID |-> "", clientSecret |-> ""]
    ELSE LET s1 == IF id = "" THEN s
                   ELSE [s EXCEPT !.AuthNil = FALSE, !.Auth.ClientId = id]
             s2 == IF secret = "" THEN s1
                   ELSE [s1 EXCEPT !.Auth.ClientSecret = secret]
         IN  [panic |-> FALSE, store |-> s2,
              clientID |-> s2.Auth.ClientId,
              clientSecret |-> s2.Auth.ClientSecret]

\* App.hAuthorize
HAuthorize(id, secret) ==
    /\ build = "app" /\ phase = "serving"
    /\ issued < MaxAuthorize
    /\ LET r == ResolveApp(store, id, secret)
           missing == r.clientID = "" \/ r.clientSecret = ""
       IN  /\ store' = r.store
           /\ authState' = IF missing THEN authState
                           ELSE NewAuthState(issued + 1, r.clientID, r.clientSecret)
           /\ issued' = IF missing THEN issued ELSE issued + 1
           /\ last' = [op |-> "authorize", err |-> missing, panic |-> FALSE,
                       state |-> IF missing THEN 0 ELSE issued + 1,
                       id |-> id, secret |-> secret, before |-> store.Auth]
    /\ UNCHANGED <<build, phase, keyed, blob, spot, task, fetches>>
    /\ UNCHANGED <<v3vars, loop, saver>>

\* Server.Authorize
Authorize(id, secret) ==
    /\ build = "serve" /\ phase = "serving"
    /\ issued < MaxAuthorize
    /\ LET r == ResolveServe(store, id, secret)
       IN  /\ store' = r.store
           /\ authState' = IF r.panic THEN authState
                           ELSE NewAuthState(issued + 1, r.clientID, r.clientSecret)
           /\ issued' = IF r.panic THEN issued ELSE issued + 1
           /\ last' = [op |-> "authorize", err |-> FALSE, panic |-> r.panic,
                       state |-> IF r.panic THEN 0 ELSE issued + 1,
                       id |-> id, secret |-> secret, before |-> store.Auth]
    /\ UNCHANGED <<build, phase, keyed, blob, spot, task, fetches>>
    /\ UNCHANGED <<v3vars, loop, saver>>

\* conf.Exchange(ctx, code) / the exchange inside auth.Token: the provider
\* hands out codes only to a registered client, and every attempt that named
\* one named the same one, so the code of any attempt is accepted when the
\* provider is reachable and as holds that client's id and secret
Exchange(as, reachable) ==
    reachable /\ as.ClientId # "" /\ as.ClientSecret # ""

\* what the two callbacks do once they hold a token: [store, spot]
InstallToken(s, token) ==
    [store |-> [s EXCEPT !.Auth.Token = token], spot |-> Client(token)]

\* App.hAuthCallback on the redirect of the attempt that was given `state`:
\* the state parameter of the request is not read
HAuthCallback(state, reachable) ==
    /\ build = "app" /\ phase = "serving"
    /\ state \in 1..issued
    /\ LET as == authState
           exchanged == ~as.nil /\ Exchange(as, reachable)
           panic == as.nil \/ (exchanged /\ store.AuthNil)
           ok == exchanged /\ ~panic
           r == InstallToken(store, TokenOf(state))
       IN  /\ store' = IF ok THEN r.store ELSE store
           /\ spot' = IF ok THEN r.spot ELSE spot
           /\ last' = [op |-> "callback", err |-> ~ok /\ ~panic, panic |-> panic,
                       state |-> state, current |-> as.state, installed |-> ok]
    /\ UNCHANGED <<build, phase, keyed, blob, authState, issued, task, fetches>>
    /\ UNCHANGED <<v3vars, loop, saver>>

\* Server.hAuthCallback: as.auth.Token(ctx, as.state, r) compares the state
\* parameter of the request with as.state before it exchanges the code
ServerAuthCallback(state, reachable) ==
    /\ build = "serve" /\ phase = "serving"
    /\ state \in 1..issued
    /\ LET as == authState
           exchanged == ~as.nil /\ state = as.state /\ Exchange(as, reachable)
           panic == as.nil \/ (exchanged /\ store.AuthNil)
           ok == exchanged /\ ~panic
           r == InstallToken(store, TokenOf(state))
       IN  /\ store' = IF ok THEN r.store ELSE store
           /\ spot' = IF ok THEN r.spot ELSE spot
           /\ last' = [op |-> "callback", err |-> ~ok /\ ~panic, panic |-> panic,
                       state |-> state, current |-> as.state, installed |-> ok]
    /\ UNCHANGED <<build, phase, keyed, blob, authState, issued, task, fetches>>
    /\ UNCHANGED <<v3vars, loop, saver>>

\* the client id and secret a request can carry
ClientIds == {"", "id"}
ClientSecrets == {"", "secret"}

\* the process ends and is started again on the same bucket
Restart ==
    /\ phase \in {"serving", "failed"}
    /\ phase' = "boot"
    /\ store' = ZeroStore
    /\ spot' = NilClient
    /\ authState' = NoAuthState
    /\ last' = [op |-> "none"]
    /\ UNCHANGED <<build, keyed, blob, issued, task, fetches>>
    /\ UNCHANGED <<v3vars, loop, saver>>

InitBoot ==
    /\ build \in {"app", "serve"}
    /\ phase = "boot"
    /\ keyed \in BOOLEAN
    /\ blob \in BootObjects
    /\ store = ZeroStore
    /\ spot = NilClient
    /\ authState = NoAuthState
    /\ issued = 0
    /\ last = [op |-> "none"]
    /\ task = NoTasks
    /\ fetches = 0
    /\ NoV3
    /\ loop = NoLoops
    /\ saver = NoSave

NextBoot ==
    \/ NewApp
    \/ NewServe
    \/ \E items \in RaceBatches : HUpdate(items)
    \/ HUpdateFetchFails
    \/ \E fail \in WriteFailures, commit \in BOOLEAN : HExport(fail, commit)
    \/ \E fail \in WriteFailures, commit \in BOOLEAN : ExportToKey(fail, commit)
    \/ ExportToCaller
    \/ \E id \in ClientIds, secret \in ClientSecrets : HAuthorize(id, secret)
    \/ \E id \in ClientIds, secret \in ClientSecrets : Authorize(id, secret)
    \/ \E state \in 1..MaxAuthorize, reachable \in BOOLEAN :
            HAuthCallback(state, reachable)
    \/ \E state \in 1..MaxAuthorize, reachable \in BOOLEAN :
            ServerAuthCallback(state, reachable)
    \/ Restart

SpecBoot == InitBoot /\ [][NextBoot]_vars


(***************************************************************************)
(* v3: one object per user, update and authCallback behind one             *)
(* singleflight.Group keyed by the user.  build is "stateless" for the     *)
(* server that reads the object on every execution and "cached" for the    *)
(* server that keeps a userData per user.                                  *)
(***************************************************************************)

\* earbugv3.Store has no Auth message: the token is the flat field
SeedUser == [SeedStore EXCEPT !.AuthNil = TRUE, !.Auth = EmptyAuth, !.Token = "tokA"]

\* a user who has authorized and has no play recorded yet
EmptyUser == [FreshStore EXCEPT !.AuthNil = TRUE, !.Token = "tokA"]

\* the bucket at start: a user with plays and one without an object, or a
\* user without plays and one with
UserObjects ==
    {[u \in Users |-> IF u = "u1" THEN Object(ZstdFrame(Marshal(SeedUser)))
                      ELSE NoObject],
     [u \in Users |-> IF u = "u1" THEN Object(ZstdFrame(Marshal(EmptyUser)))
                      ELSE Object(ZstdFrame(Marshal(SeedUser)))]}

\* what PlayerRecentlyPlayedOpt returns to an execution
V3Fetches ==
    {[ok |-> FALSE, items |-> <<>>], [ok |-> TRUE, items |-> <<Item(Sec(150), Air)>>]}

\* userData.write has no error at the open: obj.NewWriter returns none
V3WriteFailures == WriteFailures \ {"open"}

\* a storage.Writer creates the object when Close succeeds and not otherwise:
\* nothing is committed after a write that failed
V3Commit == FALSE

Stats(old, new) ==
    [oldTracks |-> Cardinality(DOMAIN old.Tracks),
     newTracks |-> Cardinality(DOMAIN new.Tracks),
     oldPlays |-> Cardinality(DOMAIN old.Playbacks),
     newPlays |-> Cardinality(DOMAIN new.Playbacks)]

\* the results of fn
StatsResult(st) == [kind |-> "stats", err |-> "", stats |-> st]
NilResult == [kind |-> "nil", err |-> "", stats |-> NoStats]
ErrResult(msg) == [kind |-> "err", err |-> msg, stats |-> NoStats]
PanicResult == [kind |-> "panic", err |-> "panic", stats |-> NoStats]

\* userData.read: [err, store]
read(obj) ==
    IF obj.exists THEN Import(obj.bytes) ELSE [err |-> TRUE, store |-> ZeroStore]

\* the function update passes to Do (stateless): [res, obj]
UpdateFn(obj, fetch, fail) ==
    LET r == read(obj)
        ing == Ingest(r.store, fetch.items)
        w == WriteObject(Marshal(ing.store), obj, fail, V3Commit)
    IN  IF r.err \/ r.store.Token = ""
        THEN [res |-> ErrResult("get user data"), obj |-> obj]
        ELSE IF ~fetch.ok THEN [res |-> ErrResult("update"), obj |-> obj]
        ELSE IF ing.panic THEN [res |-> PanicResult, obj |-> obj]
        ELSE IF w.err THEN [res |-> ErrResult("write"), obj |-> w.obj]
        ELSE [res |-> StatsResult(Stats(r.store, ing.store)), obj |-> w.obj]

\* the function authCallback passes to Do (stateless): [res, obj]
AuthFn(obj, token, fail) ==
    LET r == read(obj)
        w == WriteObject(Marshal([r.store EXCEPT !.Token = token]), obj, fail, V3Commit)
    IN  IF r.err THEN [res |-> ErrResult("get updated user data"), obj |-> obj]
        ELSE IF w.err THEN [res |-> ErrResult("write updated user data"), obj |-> w.obj]
        ELSE [res |-> NilResult, obj |-> w.obj]

\* data.initOnce.Do(func() { err = data.init(...) }): [err, data]
initOnce(data, obj) ==
    LET r == read(obj)
    IN  IF data.once THEN [err |-> FALSE, data |-> data]
        ELSE IF r.err THEN [err |-> TRUE, data |-> [data EXCEPT !.once = TRUE]]
        ELSE IF r.store.Token = ""
        THEN [err |-> TRUE, data |-> [data EXCEPT !.once = TRUE, !.store = r.store]]
        ELSE [err |-> FALSE,
              data |-> [data EXCEPT !.once = TRUE, !.store = r.store,
                                    !.client = Client(r.store.Token)]]

\* Server.updateUser (cached): [res, obj, data]
updateUser(entry, obj, fetch, fail) ==
    LET i == initOnce(IF entry.present THEN entry ELSE ZeroUserData, obj)
        ing == Ingest(i.data.store, fetch.items)
        merged == [i.data EXCEPT !.store = ing.store]
        w == WriteObject(Marshal(ing.store), obj, fail, V3Commit)
    IN  IF i.err THEN [res |-> ErrResult("init"), obj |-> obj, data |-> i.data]
        ELSE IF i.data.client.nil THEN [res |-> PanicResult, obj |-> obj, data |-> i.data]
        ELSE IF ~fetch.ok THEN [res |-> ErrResult("update"), obj |-> obj, data |-> i.data]
        ELSE IF ing.panic THEN [res |-> PanicResult, obj |-> obj, data |-> merged]
        ELSE IF w.err THEN [res |-> ErrResult("write"), obj |-> w.obj, data |-> merged]
        ELSE [res |-> StatsResult(Stats(i.data.store, ing.store)),
              obj |-> w.obj, data |-> merged]

\* a singleflight call: c.dups, c.val / c.err, and whether c.wg is released
NewCall(u) == [key |-> u, dups |-> 0, done |-> FALSE, res |-> NoResult]

\* Do that never finds a call to wait on
InFlightNone(m, u) == 0

\* Do with one slot for all keys: a call in flight for any key is waited on
InFlightAnyKey(m, u) ==
    IF \E v \in DOMAIN m : m[v] # 0 THEN m[CHOOSE v \in DOMAIN m : m[v] # 0] ELSE 0

\* if c, ok := g.m[key]; ok : the call a new caller of Do waits on, 0 if none
InFlight(m, u) == m[u]

\* requests are numbered in their order of arrival
Arrived(p) == p \in Callers => caller[p].pc # "idle"

\* a request reaches the loop around s.single.Do
V3Request(p, kind, u) ==
    /\ caller[p].pc = "idle"
    /\ Arrived(p - 1)
    /\ kind = "authCallback" => build = "stateless"
    /\ caller' = [caller EXCEPT ![p] = [IdleCaller EXCEPT !.pc = "do", !.kind = kind,
                                                          !.user = u]]
    /\ UNCHANGED <<build, loop, saver, v4vars, objs, cache, single, calls>>

\* a request that fails before it: wrong method, unreadable body, no user,
\* no cookie, no token for the code
V3Rejected(p, kind) ==
    /\ caller[p].pc = "idle"
    /\ Arrived(p - 1)
    /\ kind = "authCallback" => build = "stateless"
    /\ caller' = [caller EXCEPT ![p] = [IdleCaller EXCEPT !.pc = "done", !.kind = kind,
                                                          !.resp = <<"error">>]]
    /\ UNCHANGED <<build, loop, saver, v4vars, objs, cache, single, calls>>

\* Group.Do up to the point where the caller runs fn itself or waits on c.wg
DoEnter(p) ==
    /\ caller[p].pc = "do"
    /\ LET u == caller[p].user
           c == InFlight(single, u)
           n == Len(calls) + 1
       IN  IF c # 0
           THEN /\ calls' = [calls EXCEPT ![c].dups = @ + 1]
                /\ caller' = [caller EXCEPT ![p].pc = "waiting", ![p].c = c,
                                            ![p].entered = single[u]]
                /\ UNCHANGED single
           ELSE /\ n <= MaxCalls
                /\ calls' = Append(calls, NewCall(u))
                /\ single' = [single EXCEPT ![u] = n]
                /\ caller' = [caller EXCEPT ![p].pc = "running", ![p].c = n,
                                            ![p].entered = single[u]]
    /\ UNCHANGED <<build, loop, saver, v4vars, objs, cache>>

\* AfterUpdate that takes any value without an error for the statistics
AfterUpdateAnyValue(cl, res) ==
    CASE res.kind = "panic" -> [cl EXCEPT !.pc = "done", !.resp = Append(@, "aborted")]
      [] res.kind = "err" -> [cl EXCEPT !.pc = "done", !.resp = Append(@, "error")]
      [] OTHER -> [cl EXCEPT !.pc = "done", !.resp = Append(@, "ok")]

\* update after Do returned: an error is answered and ends the request, stats
\* are answered with "ok" (200 in the cached server); a value that is not an
\* updateStats sends the stateless server round its loop again
AfterUpdate(cl, res) ==
    CASE res.kind = "panic" -> [cl EXCEPT !.pc = "done", !.resp = Append(@, "aborted")]
      [] res.kind = "err" -> [cl EXCEPT !.pc = "done", !.resp = Append(@, "error")]
      [] res.kind = "stats" -> [cl EXCEPT !.pc = "done", !.resp = Append(@, "ok")]
      [] res.kind = "nil" -> [cl EXCEPT !.pc = "do"]

\* authCallback after Do returned: an error is answered and the loop goes on;
\* it ends when the result was not shared, with "user auth updated"
AfterAuthCallback(cl, res, shared) ==
    LET resp == IF res.kind = "err" THEN Append(cl.resp, "error") ELSE cl.resp
    IN  IF res.kind = "panic"
        THEN [cl EXCEPT !.pc = "done", !.resp = Append(@, "aborted")]
        ELSE IF shared THEN [cl EXCEPT !.pc = "do", !.resp = resp]
        ELSE [cl EXCEPT !.pc = "done", !.resp = Append(resp, "user auth updated")]

\* return c.val, c.err, shared and the rest of the loop body
AfterDo(cl, c, res, shared) ==
    LET got == [cl EXCEPT !.seen = [c |-> c, res |-> res]]
    IN  IF cl.kind = "update" THEN AfterUpdate(got, res)
        ELSE AfterAuthCallback(got, res, shared)

TokenOfCaller(p) == "tok" \o ToString(p)

\* doCall: the caller that made the call runs fn, releases c.wg, deletes the
\* key and returns with shared = c.dups > 0
DoCall(p, fetch, fail) ==
    /\ caller[p].pc = "running"
    /\ LET u == caller[p].user
           c == caller[p].c
           r == IF build = "cached"
                THEN updateUser(cache[u], objs[u], fetch, fail)
                ELSE IF caller[p].kind = "update"
                THEN UpdateFn(objs[u], fetch, fail)
                          @@ [data |-> cache[u]]
                ELSE AuthFn(objs[u], TokenOfCaller(p), fail)
                          @@ [data |-> cache[u]]
       IN  /\ objs' = [objs EXCEPT ![u] = r.obj]
           /\ cache' = [cache EXCEPT ![u] = r.data]
           /\ calls' = [calls EXCEPT ![c].done = TRUE, ![c].res = r.res]
           /\ single' = [single EXCEPT ![u] = IF @ = c THEN 0 ELSE @]
           /\ caller' = [caller EXCEPT ![p] = AfterDo(@, c, r.res, calls[c].dups > 0)]
    /\ UNCHANGED <<build, loop, saver, v4vars>>

\* c.wg.Wait() returns in a caller that found the call in flight
DoShared(p) ==
    /\ caller[p].pc = "waiting"
    /\ calls[caller[p].c].done
    /\ caller' = [caller EXCEPT ![p] = AfterDo(@, @.c, calls[@.c].res, TRUE)]
    /\ UNCHANGED <<build, loop, saver, v4vars, objs, cache, single, calls>>

InitV3 ==
    /\ objs \in UserObjects
    /\ cache = [u \in Users |-> NoUserData]
    /\ single = [u \in Users |-> 0]
    /\ calls = <<>>
    /\ caller = [p \in Callers |-> IdleCaller]

\* the v4 variables in a v3 process
NoV4 ==
    /\ phase = "serving"
    /\ keyed = FALSE
    /\ blob = NoObject
    /\ store = ZeroStore
    /\ spot = NilClient
    /\ authState = NoAuthState
    /\ issued = 0
    /\ last = [op |-> "none"]
    /\ task = NoTasks
    /\ fetches = 0

InitSingle ==
    /\ build \in {"stateless", "cached"}
    /\ NoV4
    /\ InitV3
    /\ loop = NoLoops
    /\ saver = NoSave

NextSingle ==
    \/ \E p \in Callers, kind \in {"update", "authCallback"}, u \in Users :
            V3Request(p, kind, u)
    \/ \E p \in Callers, kind \in {"update", "authCallback"} : V3Rejected(p, kind)
    \/ \E p \in Callers : DoEnter(p)
    \/ \E p \in Callers, fetch \in V3Fetches, fail \in V3WriteFailures :
            DoCall(p, fetch, fail)
    \/ \E p \in Callers : DoShared(p)

SpecSingle == InitSingle /\ [][NextSingle]_vars

(***************************************************************************)
(* v3, cached server: authCallback works on the cache entry and the object *)
(* outside the singleflight group.                                         *)
(***************************************************************************)
\* authCallback (cached) up to "init data": data := s.cache[user]; a user
\* without an entry gets a userData of its own, read from the object
CachedAuthInit(p, u) ==
    /\ build = "cached"
    /\ caller[p].pc = "idle"
    /\ Arrived(p - 1)
    /\ LET hit == cache[u].present
           i == IF hit THEN [err |-> FALSE, data |-> cache[u]]
                ELSE initOnce(ZeroUserData, objs[u])
       IN  caller' = [caller EXCEPT ![p] =
                IF i.err
                THEN [IdleCaller EXCEPT !.pc = "done", !.kind = "authCallback",
                                        !.user = u, !.resp = <<"error">>]
                ELSE [hit |-> hit, data |-> i.data] @@
                     [IdleCaller EXCEPT !.pc = "authWrite", !.kind = "authCallback",
                                        !.user = u]]
    /\ UNCHANGED <<build, loop, saver, v4vars, objs, cache, single, calls>>

\* authCallback (cached) from data.data.Token = b on: the token and the
\* client are set, s.cache[user] = data, data.write(ctx)
CachedAuthWrite(p, fail) ==
    /\ caller[p].pc = "authWrite"
    /\ LET u == caller[p].user
           base == IF caller[p].hit THEN cache[u] ELSE caller[p].data
           d == [base EXCEPT !.store.Token = TokenOfCaller(p),
                             !.client = Client(TokenOfCaller(p))]
           w == WriteObject(Marshal(d.store), objs[u], fail, V3Commit)
       IN  /\ cache' = [cache EXCEPT ![u] = d]
           /\ objs' = [objs EXCEPT ![u] = w.obj]
           /\ caller' = [q \in Callers |->
                IF q = p
                THEN [IdleCaller EXCEPT !.pc = "done", !.kind = "authCallback",
                          !.user = u,
                          !.resp = IF w.err THEN <<"error">>
                                   ELSE <<"user auth updated">>]
                ELSE IF /\ caller[q].pc = "authWrite" /\ caller[q].user = u
                        /\ caller[q].hit /\ ~caller[p].hit
                \* q holds the userData that has just left the cache
                THEN [caller[q] EXCEPT !.hit = FALSE, !.data = cache[u]]
                ELSE caller[q]]
    /\ UNCHANGED <<build, loop, saver, v4vars, single, calls>>

NextCachedAuth ==
    \/ NextSingle
    \/ \E p \in Callers, u \in Users : CachedAuthInit(p, u)
    \/ \E p \in Callers, fail \in V3WriteFailures : CachedAuthWrite(p, fail)

SpecCachedAuth == InitSingle /\ [][NextCachedAuth]_vars

(***************************************************************************)
(* v4 in service: every operation of a running server, each handler run    *)
(* to completion, in any order.                                            *)
(***************************************************************************)
\* events that disagree with each other: two tracks played at one instant,
\* one track id under two names
OpsItems == {Item(Sec(150), Air), Item(Sec(150), Help), Item(Sec(450), AirAgain)}
OpsBatches == SeqsUpTo(OpsItems, 1)

NextOps ==
    \/ \E items \in OpsBatches : HUpdate(items)
    \/ HUpdateFetchFails
    \/ Report(AllOptions)
    \/ \E id \in ClientIds, secret \in ClientSecrets : HAuthorize(id, secret)
    \/ \E id \in ClientIds, secret \in ClientSecrets : Authorize(id, secret)
    \/ \E state \in 1..MaxAuthorize, reachable \in BOOLEAN :
            HAuthCallback(state, reachable)
    \/ \E state \in 1..MaxAuthorize, reachable \in BOOLEAN :
            ServerAuthCallback(state, reachable)
    \/ \E fail \in WriteFailures, commit \in BOOLEAN : HExport(fail, commit)
    \/ \E fail \in WriteFailures, commit \in BOOLEAN : ExportToKey(fail, commit)
    \/ ExportToCaller

SpecOps == Init /\ [][NextOps]_vars

(***************************************************************************)
(* v4 with the callback running next to the other handlers: the callback   *)
(* assigns store.Auth.Token and then the client inside one storemu         *)
(* section; the update handler reads the client without the lock.          *)
(***************************************************************************)
\* hAuthCallback up to the error return: no token for the request
CbFailed(p, state, reachable) ==
    /\ phase = "serving" /\ task[p].pc = "idle"
    /\ state \in 1..issued
    /\ ~authState.nil
    /\ ~ /\ build = "serve" => state = authState.state
         /\ Exchange(authState, reachable)
    /\ last' = [op |-> "callback", err |-> TRUE, panic |-> FALSE,
                state |-> state, current |-> authState.state, installed |-> FALSE]
    /\ UNCHANGED <<build, phase, keyed, blob, store, spot, authState, issued, task, fetches>>
    /\ UNCHANGED <<v3vars, loop, saver>>

\* hAuthCallback: the token is there, storemu.Lock(), store.Auth.Token = ...
CbToken(p, state, reachable) ==
    /\ phase = "serving" /\ task[p].pc = "idle"
    /\ state \in 1..issued
    /\ ~authState.nil /\ ~store.AuthNil
    /\ build = "serve" => state = authState.state
    /\ Exchange(authState, reachable)
    /\ StoremuFree
    /\ store' = [store EXCEPT !.Auth.Token = TokenOf(state)]
    /\ task' = [task EXCEPT ![p] = [pc |-> "cbClient", state |-> state]]
    /\ UNCHANGED <<build, phase, keyed, blob, spot, authState, issued, last, fetches>>
    /\ UNCHANGED <<v3vars, loop, saver>>

\* hAuthCallback: spot = spotClient, storemu.Unlock(), "success"
CbClient(p) ==
    /\ phase = "serving" /\ task[p].pc = "cbClient"
    /\ spot' = Client(TokenOf(task[p].state))
    /\ task' = [task EXCEPT ![p] = Idle]
    /\ last' = [op |-> "callback", err |-> FALSE, panic |-> FALSE,
                state |-> task[p].state, current |-> authState.state,
                installed |-> TRUE]
    /\ UNCHANGED <<build, phase, keyed, blob, store, authState, issued, fetches>>
    /\ UNCHANGED <<v3vars, loop, saver>>

\* the batches a fetch returns here
CbBatches == SeqsUpTo({Item(Sec(150), Help)}, 1)

NextCallbackRace ==
    \/ \E id \in ClientIds, secret \in ClientSecrets :
            StoremuFree /\ HAuthorize(id, secret)
    \/ \E id \in ClientIds, secret \in ClientSecrets :
            StoremuFree /\ Authorize(id, secret)
    \/ \E p \in Tasks :
        \/ \E state \in 1..MaxAuthorize, reachable \in BOOLEAN :
                CbFailed(p, state, reachable)
        \/ \E state \in 1..MaxAuthorize, reachable \in BOOLEAN :
                CbToken(p, state, reachable)
        \/ CbClient(p)
        \/ UpdCall(p)
        \/ UpdFetchFailed(p)
        \/ \E items \in CbBatches : UpdFetched(p, items)
        \/ UpdInsertPlayback(p)
        \/ UpdInsertTrack(p)
        \/ RptRead(p, AllOptions)
        \/ ExpMarshal(p)
        \/ ExpWritten(p)
        \/ MapRaceFatal(p)

SpecCallbackRace == Init /\ [][NextCallbackRace]_vars

(***************************************************************************)
(* v4 with the pending AuthState replaced under a callback: the callback   *)
(* loads the pointer when it starts and works on what it loaded; Authorize *)
(* stores a new pointer at any time.  A finished request keeps what it     *)
(* did, for the next request to be compared with.                          *)
(***************************************************************************)
\* as := authState.Load(), for the redirect of the attempt that was given
\* `state`; earlier holds the requests that installed a token for the same
\* state under the same pending AuthState before this one began
CbLoad(p, state) ==
    /\ phase = "serving" /\ task[p].pc \in {"idle", "cbDone"}
    /\ state \in 1..issued
    /\ task' = [task EXCEPT ![p] =
                   [pc |-> "cbLoaded", state |-> state, as |-> authState,
                    earlier |-> {q \in Tasks \ {p} :
                                    /\ task[q].pc = "cbDone" /\ task[q].installed
                                    /\ task[q].state = state
                                    /\ task[q].as = authState}]]
    /\ UNCHANGED <<build, phase, keyed, blob, store, spot, authState, issued, last, fetches>>
    /\ UNCHANGED <<v3vars, loop, saver>>

\* the rest of hAuthCallback on the AuthState it loaded: the exchange (in
\* Server.hAuthCallback after the comparison of the state parameter with
\* as.state), then store.Auth.Token and the client under storemu
CbFinish(p, reachable) ==
    /\ phase = "serving" /\ task[p].pc = "cbLoaded"
    /\ LET as == task[p].as
           state == task[p].state
           exchanged == /\ ~as.nil
                        /\ build = "serve" => state = as.state
                        /\ Exchange(as, reachable)
           panic == as.nil \/ (exchanged /\ store.AuthNil)
           ok == exchanged /\ ~panic
           r == InstallToken(store, TokenOf(state))
       IN  /\ store' = IF ok THEN r.store ELSE store
           /\ spot' = IF ok THEN r.spot ELSE spot
           /\ task' = [task EXCEPT ![p] =
                          [pc |-> "cbDone", state |-> state, as |-> as,
                           earlier |-> task[p].earlier, installed |-> ok]]
           /\ last' = [op |-> "callback", err |-> ~ok /\ ~panic, panic |-> panic,
                       state |-> state, current |-> as.state, installed |-> ok]
    /\ UNCHANGED <<build, phase, keyed, blob, authState, issued, fetches>>
    /\ UNCHANGED <<v3vars, loop, saver>>

NextPending ==
    \/ \E id \in ClientIds, secret \in ClientSecrets : HAuthorize(id, secret)
    \/ \E id \in ClientIds, secret \in ClientSecrets : Authorize(id, secret)
    \/ \E p \in Tasks :
        \/ \E state \in 1..MaxAuthorize : CbLoad(p, state)
        \/ \E reachable \in BOOLEAN : CbFinish(p, reachable)

SpecPending == Init /\ [][NextPending]_vars

(***************************************************************************)
(* The timer loops and the way out.  build is "app" for the server of      *)
(* part_003 with its two goroutines and "cmd" for the update and export    *)
(* commands, which run one loop in the foreground.                         *)
(***************************************************************************)
\* ticks a ticker delivers while it is looked at
MaxTicks == 2

\* what a fetch made by a loop returns
LoopBatches == SeqsUpTo({Item(Sec(150), Air)}, 1)

\* the goroutines of a build
LoopsOf(b) == IF b = "app" THEN {"updateLoop", "exportLoop"} ELSE {"cmdLoop"}

\* the call in the body of the loop: exportLoop calls a.update(ctx)
OpOf(l) ==
    CASE l = "updateLoop" -> "update"
      [] l = "exportLoop" -> "update"
      [] l = "cmdLoop" -> "rpc"

\* the context the operation runs on: the server loops replace ctx by
\* context.Background() in the loop body, the commands pass ctx on
CtxOf(l, by) ==
    IF l = "cmdLoop" \/ by = "direct" THEN "ctx" ELSE "background"

\* the call is made: a.update(ctx) / c.update(ctx, o, e) / c.export(ctx, o, e)
Begin(l, by, chans) ==
    loop' = [loop EXCEPT !.proc[l] =
                [chans EXCEPT !.pc = "op",
                              !.ran = Append(@, [by |-> by, op |-> OpOf(l)]),
                              !.opctx = CtxOf(l, by)]]

\* the call before the loop: a.update(ctx) in updateLoop, c.update / c.export
\* in Execute
LoopFirst(l) ==
    /\ loop.proc[l].pc = "start"
    /\ Begin(l, "direct", loop.proc[l])
    /\ UNCHANGED <<build, v4vars, v3vars, saver>>

\* the ticker of a loop sends on its channel of capacity one; the commands
\* make a ticker in the select statement itself
Tick(l) ==
    /\ loop.proc[l].fired < MaxTicks
    /\ \/ loop.proc[l].pc = "select"
       \/ /\ l # "cmdLoop" /\ loop.proc[l].pc = "op"
          /\ loop.proc[l].ran[Len(loop.proc[l].ran)].by # "direct"
    /\ loop' = [loop EXCEPT !.proc[l].tick = TRUE, !.proc[l].fired = @ + 1]
    /\ UNCHANGED <<build, v4vars, v3vars, saver>>

\* case <-init:
SelectInit(l) ==
    /\ loop.proc[l].pc = "select" /\ loop.proc[l].init
    /\ Begin(l, "init", [loop.proc[l] EXCEPT !.init = FALSE])
    /\ UNCHANGED <<build, v4vars, v3vars, saver>>

\* case <-ticker:
SelectTick(l) ==
    /\ loop.proc[l].pc = "select" /\ loop.proc[l].tick
    /\ Begin(l, "tick", [loop.proc[l] EXCEPT !.tick = FALSE])
    /\ UNCHANGED <<build, v4vars, v3vars, saver>>

\* a select statement without the case of ctx.Done()
SelectDoneMissing(l) ==
    /\ FALSE
    /\ UNCHANGED vars

\* case <-ctx.Done(): return
SelectDone(l) ==
    /\ loop.proc[l].pc = "select" /\ loop.ctx = "cancelled"
    /\ loop' = [loop EXCEPT !.proc[l].pc = "returned", !.proc[l].tick = FALSE]
    /\ UNCHANGED <<build, v4vars, v3vars, saver>>

\* where the loop goes on after its call: updateLoop makes its ticker and
\* fills init after the first call, Execute gives up when the first call
\* failed, and everything else is back at the select statement
After(l, err) ==
    LET me == loop.proc[l]
        direct == me.ran[Len(me.ran)].by = "direct"
    IN  [me EXCEPT !.pc = IF direct /\ l = "cmdLoop" /\ err THEN "returned"
                          ELSE "select",
                   !.init = IF direct /\ l = "updateLoop" THEN TRUE ELSE @,
                   !.opctx = "none"]

\* hUpdate in a server loop got the items and merged them; what it answers
\* goes to the httptest recorder of a.update and is dropped
OpFetched(l, items) ==
    /\ l \in {"updateLoop", "exportLoop"}
    /\ loop.proc[l].pc = "op"
    /\ ~spot.nil /\ spot.token # ""
    /\ store' = Ingest(store, items).store
    /\ loop' = [loop EXCEPT !.proc[l] = After(l, FALSE)]
    /\ UNCHANGED <<build, phase, keyed, blob, spot, authState, issued, last, task, fetches>>
    /\ UNCHANGED <<v3vars, saver>>

\* the request of a command came back
OpAnswered(l, err) ==
    /\ l = "cmdLoop"
    /\ loop.proc[l].pc = "op"
    /\ loop' = [loop EXCEPT !.proc[l] = After(l, err)]
    /\ UNCHANGED <<build, v4vars, v3vars, saver>>

\* PlayerRecentlyPlayedOpt returned an error of the source
OpFetchFailed(l) ==
    /\ l \in {"updateLoop", "exportLoop"}
    /\ loop.proc[l].pc = "op"
    /\ loop' = [loop EXCEPT !.proc[l] = After(l, TRUE)]
    /\ UNCHANGED <<build, v4vars, v3vars, saver>>

\* the request of the operation is given up because its context is done
OpAborted(l) ==
    /\ loop.proc[l].pc = "op"
    /\ loop.proc[l].opctx = "ctx" /\ loop.ctx = "cancelled"
    /\ loop' = [loop EXCEPT !.proc[l] = After(l, TRUE)]
    /\ UNCHANGED <<build, v4vars, v3vars, saver>>

\* SIGINT / SIGTERM: ctx is done; in the server, Serve returns and the
\* deferred app.export(context.Background()) is due
Cancel ==
    /\ loop.ctx = "live"
    /\ loop' = [loop EXCEPT !.ctx = "cancelled",
                            !.final = IF build = "app"
                                      THEN [pc |-> "due",
                                            atCancel |-> DOMAIN store.Playbacks,
                                            payload |-> {}]
                                      ELSE @]
    /\ UNCHANGED <<build, v4vars, v3vars, saver>>

\* how the write of the export on the way out ends
FinalFailures == {"none", "copy"}

\* the way out without the deferred export
FinalExportSkipped(fail, commit) ==
    /\ loop.final.pc = "due"
    /\ loop' = [loop EXCEPT !.final.pc = "done"]
    /\ UNCHANGED <<build, v4vars, v3vars, saver>>

\* app.export(context.Background()) on the way out: hExport, its answer
\* dropped with the recorder
FinalExport(fail, commit) ==
    /\ loop.final.pc = "due"
    /\ LET b == Marshal(store)
           w == WriteObject(b, blob, fail, commit)
       IN  /\ blob' = w.obj
           /\ loop' = [loop EXCEPT !.final.pc = "done",
                                   !.final.payload = DOMAIN b.Playbacks]
    /\ UNCHANGED <<build, phase, keyed, store, spot, authState, issued, last, task, fetches>>
    /\ UNCHANGED <<v3vars, saver>>

\* New has returned and started its goroutines: exportLoop is at its select
\* statement with init filled, updateLoop is before its first call
InitLoops ==
    /\ build \in {"app", "cmd"}
    /\ phase = "serving"
    /\ keyed = TRUE
    /\ blob = NoObject
    /\ store = IF build = "app" THEN Unmarshal(Marshal(SeedStore)) ELSE ZeroStore
    /\ spot = IF build = "app" THEN Client(store.Auth.Token) ELSE NilClient
    /\ authState = NoAuthState
    /\ issued = 0
    /\ last = [op |-> "none"]
    /\ task = NoTasks
    /\ fetches = 0
    /\ NoV3
    /\ loop = [ctx |-> "live", final |-> NoFinal,
               proc |-> [l \in Loops |->
                    IF l \notin LoopsOf(build) THEN LoopOff
                    ELSE IF l = "exportLoop"
                    THEN [LoopOff EXCEPT !.pc = "select", !.init = TRUE]
                    ELSE [LoopOff EXCEPT !.pc = "start"]]]
    /\ saver = NoSave

LoopStep(l) ==
    \/ LoopFirst(l)
    \/ SelectInit(l)
    \/ SelectTick(l)
    \/ OpAborted(l)

Respond(l) ==
    \/ \E items \in LoopBatches : OpFetched(l, items)
    \/ OpFetchFailed(l)
    \/ \E err \in BOOLEAN : OpAnswered(l, err)

NextLoops ==
    \/ \E l \in Loops : LoopStep(l)
    \/ \E l \in Loops : SelectDone(l)
    \/ \E l \in Loops : Respond(l)
    \/ \E l \in Loops : Tick(l)
    \/ Cancel
    \/ \E fail \in FinalFailures : FinalExport(fail, FALSE)

SpecLoops == InitLoops /\ [][NextLoops]_vars

\* the scheduler runs every goroutine that can take a step, select takes a
\* ready case at random, so the case of ctx.Done() is taken in the end; the
\* source and the bucket need not answer
SpecLoopsFair ==
    /\ SpecLoops
    /\ \A l \in Loops : WF_vars(LoopStep(l)) /\ SF_vars(SelectDone(l))
    /\ WF_vars(\E fail \in FinalFailures : FinalExport(fail, FALSE))

\* the same with a source and a server that answer every request
SpecLoopsAnswered ==
    /\ SpecLoopsFair
    /\ \A l \in Loops : WF_vars(Respond(l))

(***************************************************************************)
(* The first program (main.go): Client.save splits c.plays by day, starts  *)
(* one goroutine per day that writes the day to the bucket and reports on  *)
(* the channel success, clears c.plays and takes the reports.  The plays   *)
(* of a day move together, so a day stands for its plays.                  *)
(***************************************************************************)
\* save up to the loop that takes the reports: plays is split, success is
\* made with room for one report per day, the goroutines are started and
\* c.plays is cleared
SaveBegin ==
    /\ build = "main" /\ saver.pc = "called"
    /\ saver' = [saver EXCEPT !.pc = "range",
                              !.perDay = saver.plays,
                              !.visited = {},
                              !.cap = Cardinality(saver.plays),
                              !.success = <<>>,
                              !.writer = [d \in Days |->
                                            IF d \in saver.plays THEN "write" ELSE "off"],
                              !.plays = {}]
    /\ UNCHANGED <<build, v4vars, v3vars, loop>>

\* for range plays: the next key of the map, in no order; a key deleted
\* before it was reached is not produced
RangeNext(d) ==
    /\ saver.pc = "range"
    /\ d \in saver.perDay \ saver.visited
    /\ saver' = [saver EXCEPT !.pc = "recv", !.visited = @ \cup {d}]
    /\ UNCHANGED <<build, v4vars, v3vars, loop>>

\* the body of the loop: stat := <-success, the plays of a failed day go
\* back to c.plays from plays[stat.d], delete(plays, stat.d)
Receive ==
    /\ saver.pc = "recv"
    /\ saver.success # <<>>
    /\ LET stat == Head(saver.success)
       IN  saver' = [saver EXCEPT
                !.pc = "range",
                !.success = Tail(@),
                !.plays = IF ~stat.success /\ stat.d \in saver.perDay
                          THEN @ \cup {stat.d} ELSE @,
                !.perDay = @ \ {stat.d}]
    /\ UNCHANGED <<build, v4vars, v3vars, loop>>

\* the loop has produced every key left in the map: save returns
SaveReturn ==
    /\ saver.pc = "range"
    /\ saver.perDay \ saver.visited = {}
    /\ saver' = [saver EXCEPT !.pc = "returned"]
    /\ UNCHANGED <<build, v4vars, v3vars, loop>>

\* the goroutine of day d up to err = c.write(n, pl)
WriteDay(d, ok) ==
    /\ saver.writer[d] = "write"
    /\ saver' = [saver EXCEPT !.writer[d] = IF ok THEN "sendTrue" ELSE "sendFalse",
                              !.bkt = IF ok THEN @ \cup {d} ELSE @,
                              !.failed = IF ok THEN @ ELSE @ \cup {d}]
    /\ UNCHANGED <<build, v4vars, v3vars, loop>>

\* if err != nil { success <- stat{d, false} }: the goroutine goes on to the
\* next statement; a send waits while the channel is full
SendFalse(d) ==
    /\ saver.writer[d] = "sendFalse"
    /\ Len(saver.success) < saver.cap
    /\ saver' = [saver EXCEPT !.writer[d] = "sendTrue",
                              !.success = Append(@, [d |-> d, success |-> FALSE])]
    /\ UNCHANGED <<build, v4vars, v3vars, loop>>

\* success <- stat{d, true}, the last statement of the goroutine
SendTrue(d) ==
    /\ saver.writer[d] = "sendTrue"
    /\ Len(saver.success) < saver.cap
    /\ saver' = [saver EXCEPT !.writer[d] = "done",
                              !.success = Append(@, [d |-> d, success |-> TRUE])]
    /\ UNCHANGED <<build, v4vars, v3vars, loop>>

\* saveListen has fetched plays of some days and calls save
InitSave ==
    /\ build = "main"
    /\ NoV4
    /\ NoV3
    /\ loop = NoLoops
    /\ \E ps \in SUBSET Days :
          /\ ps # {}
          /\ saver = [NoSave EXCEPT !.pc = "called", !.plays = ps, !.fetched = ps]

NextSave ==
    \/ SaveBegin
    \/ \E d \in Days : RangeNext(d)
    \/ Receive
    \/ SaveReturn
    \/ \E d \in Days, ok \in BOOLEAN : WriteDay(d, ok)
    \/ \E d \in Days : SendFalse(d)
    \/ \E d \in Days : SendTrue(d)

SpecSave == InitSave /\ [][NextSave]_vars

(***************************************************************************)
(* The views over the store: ReportPlayed of the serve build and the       *)
(* aggregate pages, next to the updates that fill the store.               *)
(***************************************************************************)
\* t.Format(time.RFC3339): the layout has no fraction, none is printed
FormatRFC3339(t) == [sec |-> t \div TicksPerSecond, frac |-> 0]

\* a < b on two formatted times, as Go compares strings: the date and time
\* fields have a fixed width, then comes "Z" or "." and the fraction, and
\* "." sorts before "Z"
StringLess(a, b) ==
    \/ a.sec < b.sec
    \/ /\ a.sec = b.sec
       /\ \/ a.frac # 0 /\ b.frac = 0
          \/ a.frac # 0 /\ b.frac # 0 /\ a.frac < b.frac

\* plays at a full second and inside it
ViewItems ==
    { Item(Sec(150), Air), Item(Sec(150) + 1, Help), Item(Sec(450), AirAgain),
      Item(Sec(50), Air), Item(Sec(50), AirAgain), Item(Sec(200), Help) }
ViewBatches == SeqsUpTo(ViewItems, 1)

\* the values of since a client sends
Sinces == {Sec(0), Sec(150), Sec(150) + 1, Sec(450)}

\* Server.ReportPlayed: the start times it returns, most recent first
ReportPlayed(since) ==
    /\ build = "serve" /\ phase = "serving"
    /\ LET kept == {ts \in DOMAIN store.Playbacks :
                        ~StringLess(ts, FormatRFC3339(since))}
           dangling == {ts \in kept : store.Playbacks[ts].TrackId \notin DOMAIN store.Tracks}
           sorted == SortDesc(kept)
       IN  last' = [op |-> "reportPlayed", err |-> FALSE, panic |-> dangling # {},
                    since |-> since,
                    plays |-> IF dangling # {} THEN <<>>
                              ELSE [i \in 1..Len(sorted) |-> ParseRFC3339(sorted[i])]]
    /\ UNCHANGED <<build, phase, keyed, blob, store, spot, authState, issued, task, fetches>>
    /\ UNCHANGED <<v3vars, loop, saver>>

\* the byte of a character, for the characters of the names
ByteOf(c) ==
    CASE c = "2" -> 50 [] c = "A" -> 65 [] c = "B" -> 66 [] c = "E" -> 69
      [] c = "H" -> 72 [] c = "a" -> 97 [] c = "e" -> 101 [] c = "i" -> 105
      [] c = "l" -> 108 [] c = "n" -> 110 [] c = "o" -> 111 [] c = "p" -> 112
      [] c = "r" -> 114 [] c = "t" -> 116 [] OTHER -> 0

\* a < b on two Go strings: byte by byte, a proper prefix is smaller
NameLess(a, b) ==
    \E k \in 1..(Len(a) + 1) :
        /\ k <= Len(b)
        /\ \A j \in 1..(k - 1) : a[j] = b[j]
        /\ \/ k = Len(a) + 1
           \/ k <= Len(a) /\ ByteOf(a[k]) < ByteOf(b[k])

\* sort.Slice(data, less), less[i, j] telling whether data[i] comes before
\* data[j]: the slice in an order in which no element is less than one
\* before it; the sort is not stable, so elements that less does not tell
\* apart come out in any order
SortSlice(data, less) ==
    LET n == Len(data)
        perms == {p \in [1..n -> 1..n] : \A i, j \in 1..n : i # j => p[i] # p[j]}
    IN  { [i \in 1..n |-> data[p[i]]] : p \in
              {q \in perms : \A i, j \in 1..n : i < j => ~less[q[j], q[i]]} }

\* AddTrack that counts a repeated track but does not add its time
AddTrackCountOnly(tracks, play) ==
    IF \E i \in 1..Len(tracks) : tracks[i].ID = play.Track.Id
    THEN [i \in 1..Len(tracks) |->
            IF tracks[i].ID = play.Track.Id
            THEN [tracks[i] EXCEPT !.Plays = @ + 1]
            ELSE tracks[i]]
    ELSE Append(tracks, [ID |-> play.Track.Id, Name |-> play.Track.Name,
                         Plays |-> 1, Time |-> play.PlaybackTime])

\* the inner loop of handleArtists over artistData[idx].Tracks
AddTrack(tracks, play) ==
    IF \E i \in 1..Len(tracks) : tracks[i].ID = play.Track.Id
    THEN [i \in 1..Len(tracks) |->
            IF tracks[i].ID = play.Track.Id
            THEN [tracks[i] EXCEPT !.Plays = @ + 1, !.Time = @ + play.PlaybackTime]
            ELSE tracks[i]]
    ELSE Append(tracks, [ID |-> play.Track.Id, Name |-> play.Track.Name,
                         Plays |-> 1, Time |-> play.PlaybackTime])

\* the body of the loop over play.Track.Artists; Id stands for artistIdx
AddCredit(data, artist, play) ==
    LET known == \E i \in 1..Len(data) : data[i].Id = artist.Id
        rows == IF known THEN data
                ELSE Append(data, [Id |-> artist.Id, Name |-> artist.Name,
                                   Plays |-> 0, Time |-> 0, Tracks |-> <<>>])
    IN  [i \in 1..Len(rows) |->
            IF rows[i].Id = artist.Id
            THEN [rows[i] EXCEPT !.Plays = @ + 1, !.Time = @ + play.PlaybackTime,
                                 !.Tracks = AddTrack(@, play)]
            ELSE rows[i]]

\* the two loops of handleArtists: artistData before it is sorted
RECURSIVE ArtistData(_, _, _, _)
ArtistData(data, plays, i, k) ==
    IF i > Len(plays) THEN data
    ELSE IF k > Len(plays[i].Track.Artists) THEN ArtistData(data, plays, i + 1, 1)
    ELSE ArtistData(AddCredit(data, plays[i].Track.Artists[k], plays[i]), plays, i, k + 1)

\* the loop of handleTracks: trackData before it is sorted; Id stands for trackIdx
RECURSIVE TrackData(_, _, _)
TrackData(data, plays, i) ==
    IF i > Len(plays) THEN data
    ELSE LET play == plays[i]
             known == \E j \in 1..Len(data) : data[j].Id = play.Track.Id
             rows == IF known THEN data
                     ELSE Append(data, [Id |-> play.Track.Id, Name |-> play.Track.Name,
                                        Plays |-> 0, Time |-> 0,
                                        Artists |-> play.Track.Artists])
         IN  TrackData([j \in 1..Len(rows) |->
                          IF rows[j].Id = play.Track.Id
                          THEN [rows[j] EXCEPT !.Plays = @ + 1,
                                               !.Time = @ + play.PlaybackTime]
                          ELSE rows[j]],
                       plays, i + 1)

\* the less function of the first sort.Slice of handleArtists; the "time"
\* case of Server.handleArtists compares with <, that of App.handleArtists
\* with >
ArtistLess(b, sortOrder, x, y) ==
    CASE sortOrder = "tracks" ->
            IF Len(x.Tracks) = Len(y.Tracks) THEN NameLess(x.Name, y.Name)
            ELSE Len(x.Tracks) > Len(y.Tracks)
      [] sortOrder = "time" ->
            IF b = "serve" THEN x.Time < y.Time ELSE x.Time > y.Time
      [] OTHER ->
            IF x.Plays = y.Plays THEN NameLess(x.Name, y.Name)
            ELSE x.Plays > y.Plays

\* the less function of the sort.Slice over artist.Tracks
NestedLess(sortOrder, x, y) ==
    CASE sortOrder = "time" -> x.Time > y.Time
      [] OTHER ->
            IF x.Plays = y.Plays THEN NameLess(x.Name, y.Name)
            ELSE x.Plays > y.Plays

\* the less function of the sort.Slice of handleTracks
TrackLess(sortOrder, x, y) ==
    CASE sortOrder = "time" -> x.Time > y.Time
      [] OTHER ->
            IF x.Plays = y.Plays THEN NameLess(x.Name, y.Name)
            ELSE x.Plays > y.Plays

\* the values of the sort parameter the index page and the comments name
SortOrders == {"", "plays", "time", "tracks"}

\* sortOrder := r.FormValue("sort"); if sortOrder == "" { sortOrder = "plays" }
SortOrderOf(param) == IF param = "" THEN "plays" ELSE param

\* the tables handleArtists can write: the rows sorted, and the tracks of
\* each row sorted
ArtistTables(b, sortOrder, plays) ==
    LET data == ArtistData(<<>>, plays, 1, 1)
        inner(row) == {[row EXCEPT !.Tracks = t] :
                          t \in SortSlice(row.Tracks,
                                          [i, j \in 1..Len(row.Tracks) |->
                                              NestedLess(sortOrder, row.Tracks[i],
                                                         row.Tracks[j])])}
    IN  UNION { {rows \in [1..Len(outer) -> UNION {inner(outer[i]) : i \in 1..Len(outer)}] :
                    \A i \in 1..Len(outer) : rows[i] \in inner(outer[i])} :
                outer \in SortSlice(data, [i, j \in 1..Len(data) |->
                                            ArtistLess(b, sortOrder, data[i], data[j])]) }

\* App.handleArtists / Server.handleArtists, without a filter in the request
HandleArtists(param) ==
    /\ phase = "serving"
    /\ LET r == getPlaybacks(store, AllOptions)
           sortOrder == SortOrderOf(param)
       IN  \E rows \in IF r.panic THEN {<<>>} ELSE ArtistTables(build, sortOrder, r.plays) :
               last' = [op |-> "artists", err |-> FALSE, panic |-> r.panic,
                        sort |-> sortOrder, rows |-> rows]
    /\ UNCHANGED <<build, phase, keyed, blob, store, spot, authState, issued, task, fetches>>
    /\ UNCHANGED <<v3vars, loop, saver>>

\* App.handleTracks / Server.handleTracks, without a filter in the request
HandleTracks(param) ==
    /\ phase = "serving"
    /\ LET r == getPlaybacks(store, AllOptions)
           sortOrder == SortOrderOf(param)
           data == TrackData(<<>>, r.plays, 1)
       IN  \E rows \in IF r.panic THEN {<<>>}
                        ELSE SortSlice(data, [i, j \in 1..Len(data) |->
                                                TrackLess(sortOrder, data[i], data[j])]) :
               last' = [op |-> "tracks", err |-> FALSE, panic |-> r.panic,
                        sort |-> sortOrder, rows |-> rows]
    /\ UNCHANGED <<build, phase, keyed, blob, store, spot, authState, issued, task, fetches>>
    /\ UNCHANGED <<v3vars, loop, saver>>

NextViews ==
    \/ \E items \in ViewBatches : HUpdate(items)
    \/ \E since \in Sinces : ReportPlayed(since)
    \/ \E param \in SortOrders : HandleArtists(param)
    \/ \E param \in SortOrders \ {"tracks"} : HandleTracks(param)

SpecViews == Init /\ [][NextViews]_vars

(***************************************************************************)
(* Claims checked under Spec.                                              *)
(***************************************************************************)
\* C1: ingesting a batch a second time, right after the first, changes
\* nothing in the store (playbacks, tracks, auth) and adds no playback.
C1_IngestIdempotent ==
    \A items \in Batches :
        LET once == Ingest(store, items)
            twice == Ingest(once.store, items)
        IN  /\ twice.store = once.store
            /\ ~twice.panic => twice.added = 0

\* C1 witness: an update that found every event of a full batch already stored
C1_Reingested ==
    /\ last.op = "update" /\ ~last.err /\ ~last.panic
    /\ last.n = MaxBatch /\ last.added = 0
    /\ Cardinality(DOMAIN store.Playbacks) >= 2

\* C7: in the list getPlaybacks returns, the first (most recent) record has
\* its track's nominal duration and every later record has the smaller of its
\* nominal duration and the gap to the record before it; a 200 s track played
\* at 0 s, 150 s and 450 s gets 150 s, 200 s and 200 s.
C7_PlaybackTime ==
    (last.op = "report" /\ ~last.panic) =>
        /\ \A i \in 1..Len(last.plays) :
               LET p == last.plays[i]
               IN  IF i = 1
                   THEN p.PlaybackTime = p.Track.Duration
                   ELSE LET gap == last.plays[i - 1].StartTime - p.StartTime
                        IN  /\ p.PlaybackTime <= p.Track.Duration
                            /\ p.PlaybackTime <= gap
                            /\ p.PlaybackTime \in {p.Track.Duration, gap}
        /\ ( /\ [i \in 1..Len(last.plays) |-> last.plays[i].StartTime]
                    = <<Sec(450), Sec(150), Sec(0)>>
             /\ \A i \in 1..Len(last.plays) : last.plays[i].Track.Duration = Sec(200) )
           => [i \in 1..Len(last.plays) |-> last.plays[i].PlaybackTime]
                  = <<Sec(200), Sec(200), Sec(150)>>

\* C7 witness: the report of the three plays of the 200 s track
C7_ThreePlays ==
    /\ last.op = "report" /\ ~last.panic
    /\ [i \in 1..Len(last.plays) |-> last.plays[i].StartTime]
           = <<Sec(450), Sec(150), Sec(0)>>
    /\ \A i \in 1..Len(last.plays) : last.plays[i].Track.Duration = Sec(200)

(***************************************************************************)
(* Claims checked under SpecRace.                                          *)
(***************************************************************************)
\* C3: a report or an export's marshal that runs while an update merges its
\* batch sees the store before the whole batch or after the whole batch:
\* never only some of the entries the batch adds, never a playback of the
\* batch without its track.
C3_BatchAtomicForReaders ==
    (last.op \in {"report", "marshal"}) => (~last.partial /\ ~last.orphan)

\* C4: at most one fetch from the playback source and at most one snapshot
\* write are in flight at any time.
C4_OneFetchOneWriteInFlight ==
    /\ Cardinality({p \in Tasks : task[p].pc = "fetching"}) <= 1
    /\ Cardinality({p \in Tasks : task[p].pc = "writing"}) <= 1

(***************************************************************************)
(* Claims checked under SpecBoot.                                          *)
(***************************************************************************)
\* C5: an Export whose write failed at any step (opening the writer, copying
\* the compressed bytes, closing the zstd writer, closing the object writer)
\* reports an error, and nothing is published under the key by that Export.
C5_ExportFailureReported ==
    (last.op = "export" /\ last.fail # "none") =>
        (last.err /\ ~last.published)

\* a store with at least one playback, one track and a non-empty auth record
NonTrivial(s) ==
    /\ DOMAIN s.Playbacks # {}
    /\ DOMAIN s.Tracks # {}
    /\ ~s.AuthNil /\ s.Auth # EmptyAuth

\* C6: for a non-trivial store, importing the bytes a successful Export
\* produced, returned to the caller or published under the key, gives a store
\* with the same playback keys, the same track keys and the same auth content.
C6_ImportExportRoundTrip ==
    (last.op = "export" /\ ~last.err /\ last.fail = "none" /\ NonTrivial(store)) =>
        LET r == Import(last.content)
        IN  /\ ~r.err
            /\ DOMAIN r.store.Playbacks = DOMAIN store.Playbacks
            /\ DOMAIN r.store.Tracks = DOMAIN store.Tracks
            /\ r.store.Auth = store.Auth

\* C9: when the configured key holds no object, the startup load leaves a
\* serving process whose maps are initialized and empty and whose Auth record
\* is present, and the update issued right after it returns without an error.
C9_ColdStart ==
    /\ (last.op = "New" /\ keyed /\ ~blob.exists) =>
            /\ phase = "serving"
            /\ ~store.PlaybacksNil /\ DOMAIN store.Playbacks = {}
            /\ ~store.TracksNil /\ DOMAIN store.Tracks = {}
            /\ ~store.AuthNil
    /\ (last.op = "update" /\ last.first /\ keyed /\ ~blob.exists) =>
            (~last.err /\ ~last.panic)

\* C8: after two Authorize calls, a callback that presents the state of the
\* first one fails with an error and installs neither a token nor a client;
\* only a callback presenting the latest state installs anything.
C8_StaleStateRejected ==
    (last.op = "callback" /\ last.state < last.current) =>
        (last.err /\ ~last.installed)

(***************************************************************************)
(* Claims checked under SpecSingle.                                        *)
(***************************************************************************)
\* C2: callers that enter Do for a key while a call for that key is in flight
\* wait on that call instead of starting one; a call in flight is run by
\* exactly one caller, a key has at most one call in flight, and every caller
\* that returned from a call holds the result and the error of that call, the
\* same for all of them.
C2_CoalescedOnce ==
    /\ \A u \in Users :
          Cardinality({c \in 1..Len(calls) : calls[c].key = u /\ ~calls[c].done}) <= 1
    /\ \A c \in 1..Len(calls) :
          LET runners == {p \in Callers : caller[p].pc = "running" /\ caller[p].c = c}
          IN  Cardinality(runners) = IF calls[c].done THEN 0 ELSE 1
    /\ \A p \in Callers :
          /\ caller[p].entered # 0 => caller[p].c = caller[p].entered
          /\ caller[p].seen.c # 0 =>
                /\ calls[caller[p].seen.c].done
                /\ caller[p].seen.res = calls[caller[p].seen.c].res
    /\ \A p, q \in Callers :
          (caller[p].seen.c # 0 /\ caller[p].seen.c = caller[q].seen.c) =>
              caller[p].seen.res = caller[q].seen.res

\* every caller sent an update request for one user and all were served by
\* one execution that returned statistics: one caller ran it, the others
\* waited, and each of them answered "ok"
C2_AllOnOneCall ==
    \E c \in 1..Len(calls) :
        /\ calls[c].done /\ calls[c].dups = NumCallers - 1
        /\ calls[c].res.kind = "stats"
        /\ \A p \in Callers :
              /\ caller[p].kind = "update" /\ caller[p].pc = "done"
              /\ caller[p].seen.c = c /\ caller[p].resp = <<"ok">>

HasError(resp) == \E i \in 1..Len(resp) : resp[i] = "error"
HasSuccess(resp) == \E i \in 1..Len(resp) : resp[i] \in {"ok", "user auth updated"}

\* C10: a request whose execution failed is answered with the error and with
\* no success body: no response holds both an error and "ok" or "user auth
\* updated", and a request that ended on a failed execution holds the error.
C10_FailureNeverSuccess ==
    \A p \in Callers :
        /\ ~(HasError(caller[p].resp) /\ HasSuccess(caller[p].resp))
        /\ (caller[p].pc = "done" /\ caller[p].seen.res.kind = "err") =>
                HasError(caller[p].resp)

(***************************************************************************)
(* Claims checked under SpecOps.                                           *)
(***************************************************************************)
\* C11: no step of update, authorize, callback, report or export removes a
\* playback key or a track id from the store or changes the value stored
\* under it, whatever the events of a later batch carry for that key.
C11_EntriesKept ==
    [][/\ \A ts \in DOMAIN store.Playbacks :
              ts \in DOMAIN store'.Playbacks /\ store'.Playbacks[ts] = store.Playbacks[ts]
       /\ \A id \in DOMAIN store.Tracks :
              id \in DOMAIN store'.Tracks /\ store'.Tracks[id] = store.Tracks[id]]_vars

\* an update has merged a batch with an event whose timestamp or track id was
\* stored with other content already, and it stored nothing
C11_ConflictingEventMerged ==
    /\ last.op = "update" /\ ~last.panic /\ last.n > 0 /\ last.added = 0
    /\ last.clash

\* C12: an update whose fetch failed returns an error, leaves the store as it
\* was and writes nothing to the data key.
C12_FetchFailureLeavesStore ==
    [][(last'.op = "update" /\ ~last'.fetched /\ ~last'.panic) =>
            (last'.err /\ store' = store /\ blob' = blob)]_vars

\* a failed fetch was answered with an error by a server that holds plays
C12_FetchFailed ==
    /\ last.op = "update" /\ ~last.fetched /\ last.err
    /\ DOMAIN store.Playbacks # {}

(***************************************************************************)
(* Claims checked under SpecBoot.                                          *)
(***************************************************************************)
\* the value Authorize is to use: the candidate, or the stored one when the
\* candidate is empty
Resolved(candidate, stored) == IF candidate = "" THEN stored ELSE candidate

\* C13: Authorize does not crash; after it the stored client id and secret
\* are each the candidate when that is non-empty and the value stored before
\* otherwise; when either of them is empty Authorize returns an error and
\* registers no pending state, and otherwise the pending state carries them.
C13_AuthorizeResolves ==
    last.op = "authorize" =>
        LET clientID == Resolved(last.id, last.before.ClientId)
            clientSecret == Resolved(last.secret, last.before.ClientSecret)
        IN  /\ ~last.panic
            /\ store.Auth.ClientId = clientID
            /\ store.Auth.ClientSecret = clientSecret
            /\ IF clientID = "" \/ clientSecret = ""
               THEN last.err /\ last.state = 0
               ELSE /\ ~last.err /\ last.state = authState.state
                    /\ authState.ClientId = clientID
                    /\ authState.ClientSecret = clientSecret

(***************************************************************************)
(* Claims checked under SpecCallbackRace.                                  *)
(***************************************************************************)
\* C14: the client an update reads for its fetch is the client of the token
\* the store holds at that moment, and the snapshot an export marshals holds
\* the token of the client that is live at that moment.
C14_TokenAndClientTogether ==
    \A p \in Tasks :
        /\ task[p].pc = "fetching" => task[p].client.token = task[p].held
        /\ task[p].pc = "writing" =>
              (task[p].b.HasAuth => task[p].b.Auth.Token = task[p].client.token)

(***************************************************************************)
(* Claims checked under SpecRace.                                          *)
(***************************************************************************)
\* C15: a report that runs over a store holding a playback whose track is
\* not in Tracks completes without a panic, whatever its filters are.
C15_DanglingPlaybackTolerated ==
    (last.op = "report" /\ last.orphan) => ~last.panic

(***************************************************************************)
(* Claims checked under SpecBoot.                                          *)
(***************************************************************************)
\* C16: when the object under the data key exists and cannot be decompressed
\* or deserialized, New fails and the process does not serve.
C16_CorruptSnapshotFatal ==
    (last.op = "New" /\ keyed /\ blob.exists /\ Import(blob.bytes).err)
        => phase = "failed"

(***************************************************************************)
(* Claims checked under Spec, continued.                                   *)
(***************************************************************************)
\* the records of the time range a report with the options o has to keep
Wanted(o) ==
    {ts \in DOMAIN store.Playbacks :
        /\ InRange(o, ParseRFC3339(ts))
        /\ LET track == store.Tracks[store.Playbacks[ts].TrackId]
           IN  /\ o.Track = <<>> \/ Contains(ToLower(track.Name), ToLower(o.Track))
               /\ o.Artist = <<>> \/
                    \E a \in {track.Artists[i] : i \in 1..Len(track.Artists)} :
                        Contains(ToLower(a.Name), ToLower(o.Artist))}

\* C17: a report keeps exactly the records of the time range whose track name
\* contains the track filter and one of whose artist names contains the
\* artist filter, both compared in lower case; an empty filter keeps all.
C17_FiltersIgnoreCase ==
    (last.op = "report" /\ ~last.panic) =>
        /\ Len(last.plays) = Cardinality(Wanted(last.o))
        /\ {last.plays[i].StartTime : i \in 1..Len(last.plays)}
                = {ParseRFC3339(ts) : ts \in Wanted(last.o)}

\* C17 witness: the artist filter "eno" kept a play of a track by "Eno" and
\* dropped a play of a track by "Beat" only
C17_EnoKeptBeatlesDropped ==
    /\ last.op = "report" /\ ~last.panic
    /\ last.o.Artist = <<"e", "n", "o">>
    /\ \E i \in 1..Len(last.plays) : last.plays[i].Track.Artists[1].Name = Eno.Name
    /\ \E ts \in DOMAIN store.Playbacks :
          /\ InRange(last.o, ParseRFC3339(ts))
          /\ LET artists == store.Tracks[store.Playbacks[ts].TrackId].Artists
             IN  \A j \in 1..Len(artists) : artists[j].Name = Beatles.Name
          /\ \A i \in 1..Len(last.plays) : last.plays[i].StartTime # ParseRFC3339(ts)

(***************************************************************************)
(* Claims checked under SpecCachedAuth.                                    *)
(***************************************************************************)
\* C18: update and authCallback of one user never overlap in their
\* read-modify-write of the object, so no write of the object drops a play
\* or a track that the object held before it.
C18_WritesKeepPlays ==
    [][\A u \in Users :
          /\ DOMAIN read(objs[u]).store.Playbacks
                \subseteq DOMAIN read(objs'[u]).store.Playbacks
          /\ DOMAIN read(objs[u]).store.Tracks
                \subseteq DOMAIN read(objs'[u]).store.Tracks]_vars

(***************************************************************************)
(* Claims checked under SpecSingle, continued.                             *)
(***************************************************************************)
\* C19: an update in flight for one user never holds up another user: a
\* caller waits only on a call made for its own user, found in flight when
\* it entered, and otherwise runs its own fetch, merge and write.
C19_WaitsOnlyOnOwnUser ==
    \A p \in Callers :
        /\ caller[p].pc \in {"waiting", "running"} =>
              calls[caller[p].c].key = caller[p].user
        /\ caller[p].pc = "waiting" =>
              /\ caller[p].entered = caller[p].c
              /\ caller[p].c # 0

\* C19 witness: the update of one user is still running while an update of
\* another user, which arrived later, has run its own call and answered "ok"
C19_OtherUserDoneMeanwhile ==
    \E p, q \in Callers :
        /\ p < q
        /\ caller[p].pc = "running" /\ caller[p].kind = "update"
        /\ ~calls[caller[p].c].done
        /\ caller[q].pc = "done" /\ caller[q].kind = "update"
        /\ caller[q].user # caller[p].user
        /\ caller[q].seen.c > caller[p].c
        /\ calls[caller[q].seen.c].dups = 0
        /\ caller[q].resp = <<"ok">>

(***************************************************************************)
(* Claims checked under SpecBoot, continued.                               *)
(***************************************************************************)
\* C20: after a load that read the object, the client is built from
\* Auth.Token when that is not empty and from the flat Token field otherwise.
C20_TokenOnLoad ==
    (last.op = "New" /\ last.loaded) =>
        /\ ~last.panic
        /\ ~spot.nil
        /\ spot.token = IF ~store.AuthNil /\ store.Auth.Token # ""
                        THEN store.Auth.Token ELSE store.Token

(***************************************************************************)
(* Claims checked under SpecLoops.                                         *)
(***************************************************************************)
\* C21: every firing of the export loop, the one at startup and the one of
\* each tick, runs an export.
C21_ExportLoopExports ==
    \A i \in 1..Len(loop.proc["exportLoop"].ran) :
        loop.proc["exportLoop"].ran[i].op = "export"

\* the calls a loop has made so far for a reason in the set
Ran(l, reasons) ==
    Cardinality({i \in 1..Len(loop.proc[l].ran) : loop.proc[l].ran[i].by \in reasons})

\* C22: updateLoop and exportLoop make one call at startup and one call for
\* each tick they take.
C22_OnceAtStartOncePerTick ==
    \A l \in {"updateLoop", "exportLoop"} :
        /\ Ran(l, {"direct", "init"}) <= 1
        /\ Ran(l, {"tick"}) <= loop.proc[l].fired

C24_CallsEndOnCancel ==
    (loop.ctx = "cancelled") ~> (\A l \in Loops : loop.proc[l].pc # "op")

\* C25: when the server is told to stop, the export on the way out is made,
\* and what it serializes holds every playback that was stored when the
\* shutdown began.
C25_FinalExportHasAll ==
    /\ (build = "app" /\ loop.ctx = "cancelled") ~> (loop.final.pc = "done")
    /\ [](loop.final.pc = "done" => loop.final.atCancel \subseteq loop.final.payload)

\* C25 witness: a loop merged a playback, the shutdown began after it, and
\* the export on the way out has serialized it
C25_MergedThenExported ==
    /\ loop.final.pc = "done"
    /\ FormatRFC3339Nano(Sec(150)) \in loop.final.atCancel
    /\ FormatRFC3339Nano(Sec(150)) \in loop.final.payload
    /\ blob.exists

(***************************************************************************)
(* Claims checked under SpecViews.                                         *)
(***************************************************************************)
\* C26: ReportPlayed returns exactly the playbacks whose start time is not
\* before since, also those that start inside the second of since.
C26_SinceIsALowerBound ==
    (last.op = "reportPlayed" /\ ~last.panic) =>
        {last.plays[i] : i \in 1..Len(last.plays)}
            = {ParseRFC3339(ts) : ts \in {k \in DOMAIN store.Playbacks :
                                            ParseRFC3339(k) >= last.since}}

(***************************************************************************)
(* Claims checked under Spec: the time range and the count of an update.   *)
(***************************************************************************)
\* the start times of the stored records between the bounds of o, a bound
\* that is not set being no bound
Between(o) ==
    {t \in {ParseRFC3339(ts) : ts \in DOMAIN store.Playbacks} :
        /\ o.From = ZeroTime \/ t >= o.From
        /\ o.To = ZeroTime \/ t <= o.To}

\* C27: getPlaybacks returns no record from before a set from or from after
\* a set to, and without name filters it returns every other record, those
\* at the bounds included.
C27_BoundsInclusive ==
    (last.op = "report" /\ ~last.panic) =>
        LET got == {last.plays[i].StartTime : i \in 1..Len(last.plays)}
        IN  /\ got \subseteq Between(last.o)
            /\ (last.o.Artist = NoFilter /\ last.o.Track = NoFilter) =>
                    got = Between(last.o)

\* C27 witness: from and to are the same instant; the record of that instant
\* is returned, and a record before it and one after it are not
C27_KeptAtBothBounds ==
    /\ last.op = "report" /\ ~last.panic
    /\ last.o.From = Sec(150) /\ last.o.To = Sec(150)
    /\ Len(last.plays) = 1 /\ last.plays[1].StartTime = Sec(150)
    /\ \E ts \in DOMAIN store.Playbacks : ParseRFC3339(ts) < Sec(150)
    /\ \E ts \in DOMAIN store.Playbacks : ParseRFC3339(ts) > Sec(150)

\* C30: the count an update reports is the number of playback keys that are
\* in the store after it and were not before it.
C30_AddedCountsNewKeys ==
    [][(last'.op = "update" /\ last'.fetched /\ ~last'.panic) =>
            last'.added = Cardinality(DOMAIN store'.Playbacks \ DOMAIN store.Playbacks)]_vars

\* C30 witness: an update on a store without playbacks got the same event
\* twice in its batch, reported one and stored one
C30_RepeatedEventCountedOnce ==
    /\ last.op = "update" /\ last.fetched /\ ~last.panic
    /\ last.n = 2 /\ last.added = 1
    /\ Cardinality(DOMAIN store.Playbacks) = 1

(***************************************************************************)
(* Claims checked under SpecViews: the order of the aggregate pages.       *)
(***************************************************************************)
\* the value a row is ordered by: the plays, the accumulated time, or the
\* number of distinct tracks (of a track row: the one track it stands for)
Metric(sortOrder, row) ==
    CASE sortOrder = "time" -> row.Time
      [] sortOrder = "tracks" -> IF "Tracks" \in DOMAIN row THEN Len(row.Tracks) ELSE 1
      [] OTHER -> row.Plays

\* rows in the order of the metric, descending, and of the name, ascending,
\* where the metric is equal
Ordered(sortOrder, rows) ==
    \A i, j \in 1..Len(rows) :
        i < j =>
            \/ Metric(sortOrder, rows[i]) > Metric(sortOrder, rows[j])
            \/ /\ Metric(sortOrder, rows[i]) = Metric(sortOrder, rows[j])
               /\ NameLess(rows[i].Name, rows[j].Name)

\* C28: in the artist and the track page the rows are in the order of the
\* chosen metric (plays, time, number of tracks), descending, and two rows
\* with the same value are in the order of their names, ascending.
C28_RowsByMetricThenName ==
    (last.op \in {"artists", "tracks"} /\ ~last.panic) =>
        Ordered(last.sort, last.rows)

\* C29: in every row of the artist page the tracks of the artist are in the
\* order of the metric chosen for the page, descending, and two tracks with
\* the same value are in the order of their names, ascending.
C29_NestedByMetricThenName ==
    (last.op = "artists" /\ ~last.panic) =>
        \A i \in 1..Len(last.rows) : Ordered(last.sort, last.rows[i].Tracks)


(***************************************************************************)
(* Claims checked under Spec: what the merge loop keeps true of the store. *)
(***************************************************************************)
\* C31: after any sequence of updates, failed fetches among them, on a store
\* that began empty, the TrackId of every stored playback is a key of Tracks.
C31_PlaybacksResolve ==
    \A ts \in DOMAIN store.Playbacks :
        store.Playbacks[ts].TrackId \in DOMAIN store.Tracks

\* an update has merged into a store that holds plays of both tracks
C31_BothTracksMerged ==
    /\ last.op = "update" /\ last.fetched /\ ~last.panic /\ last.added > 0
    /\ Cardinality(DOMAIN store.Playbacks) >= 3
    /\ {store.Playbacks[ts].TrackId : ts \in DOMAIN store.Playbacks} = {"t1", "t2"}


(***************************************************************************)
(* Claims checked under SpecBoot: a callback before any Authorize.         *)
(***************************************************************************)
\* C32: a callback that arrives while no Authorize has stored a pending
\* state since the start of the process is answered with an error and
\* leaves Auth.Token and the client as they were.
C32_CallbackBeforeAuthorizeRejected ==
    [][(authState.nil /\ last'.op = "callback") =>
            /\ last'.err /\ ~last'.panic
            /\ store'.Auth.Token = store.Auth.Token
            /\ spot' = spot]_vars


(***************************************************************************)
(* Claims checked under SpecPending: which callback installs a token.      *)
(***************************************************************************)
\* C33: a callback that loaded the pending state it was issued for, and
\* finds at the moment it would store the token that an Authorize has put
\* another pending state in its place, installs no token and no client.
C33_ReplacedStateInstallsNothing ==
    [][\A p \in Tasks :
          (/\ task[p].pc = "cbLoaded" /\ task'[p].pc = "cbDone"
           /\ task[p].as.state = task[p].state
           /\ authState.state # task[p].state) =>
              /\ ~task'[p].installed
              /\ store'.Auth.Token = store.Auth.Token /\ spot' = spot]_vars

\* C34: after a callback that presented the pending state has installed its
\* token, a second callback that presents the same state, with no Authorize
\* since, is rejected and installs nothing.
C34_StateUsedOnce ==
    [][\A p \in Tasks :
          (/\ task[p].pc = "cbLoaded" /\ task'[p].pc = "cbDone"
           /\ task[p].earlier # {}
           /\ task[p].as = authState) =>
              /\ ~task'[p].installed
              /\ last'.err]_vars


(***************************************************************************)
(* Claims checked under SpecSingle: the executions behind Do.              *)
(***************************************************************************)
\* C35: in the server that keeps a userData per user, once the first
\* initialisation of a user has failed, every later update of that user
\* ends with an error too, and none runs the fetch on the userData that
\* was never initialised.
C35_FailedInitStaysFailed ==
    build = "cached" =>
        \A c1, c2 \in 1..Len(calls) :
            (/\ c1 < c2 /\ calls[c1].key = calls[c2].key
             /\ calls[c1].done /\ calls[c1].res = ErrResult("init")
             /\ calls[c2].done) =>
                calls[c2].res.kind = "err"


\* the response of a request has just been closed with "user auth updated"
Updated(p) ==
    /\ caller[p].kind = "authCallback"
    /\ caller[p].pc # "done" /\ caller'[p].pc = "done"
    /\ caller'[p].resp # <<>>
    /\ caller'[p].resp[Len(caller'[p].resp)] = "user auth updated"

\* C36: the singleflight authCallback answers "user auth updated" only at
\* the end of an execution that this request ran itself, that read the
\* stored data, put the new token in it and wrote the object with success;
\* never on a result it waited for.
C36_UpdatedOnlyAfterOwnWrite ==
    [][\A p \in Callers :
          Updated(p) =>
              LET u == caller[p].user
                  r == read(objs[u])
              IN  /\ caller[p].pc = "running"
                  /\ calls'[caller[p].c].res = NilResult
                  /\ ~r.err
                  /\ objs'[u] = Object(ZstdFrame(Marshal(
                                    [r.store EXCEPT !.Token = TokenOfCaller(p)])))]_vars


\* C37: an update that waited on an execution of authCallback for its user
\* does not answer with what that execution returned: it answers "ok" only
\* on the statistics of an execution of update, and goes round its loop
\* until it holds statistics or an error.
C37_OkOnlyOnStats ==
    \A p \in Callers :
        caller[p].kind = "update" =>
            /\ HasSuccess(caller[p].resp) =>
                    /\ caller[p].seen.res.kind = "stats"
                    /\ caller[p].seen.res = calls[caller[p].seen.c].res
            /\ caller[p].pc = "done" =>
                    \/ caller[p].seen.c = 0
                    \/ caller[p].seen.res.kind \in {"stats", "err", "panic"}

\* an update waited on an execution of authCallback that returned without
\* an error, ran an execution of its own afterwards and answered "ok"
C37_RetriedAfterAuthCallback ==
    \E p, q \in Callers :
        /\ caller[q].kind = "authCallback" /\ caller[q].seen.c = 1
        /\ Len(calls) = 2
        /\ calls[1].dups = 1 /\ calls[1].res = NilResult
        /\ caller[p].kind = "update" /\ caller[p].user = caller[q].user
        /\ caller[p].pc = "done" /\ caller[p].resp = <<"ok">>
        /\ caller[p].seen.c = 2 /\ calls[2].res.kind = "stats"


(***************************************************************************)
(* Claims checked under SpecSave: what save leaves in c.plays.             *)
(***************************************************************************)
\* C38: when save has returned and every write has ended, the plays of
\* every day whose write failed are back in c.plays, and the plays of every
\* day whose write succeeded are in the bucket and not in c.plays: no
\* fetched play is missing from both.
C38_FailedDaysKept ==
    (/\ saver.pc = "returned"
     /\ \A d \in saver.fetched : saver.writer[d] # "write") =>
        \A d \in saver.fetched :
            /\ d \in saver.failed => d \in saver.plays
            /\ d \notin saver.failed => (d \in saver.bkt /\ d \notin saver.plays)

(***************************************************************************)
(* Claims about the playing time of the returned records.                  *)
(***************************************************************************)
\* the sum of the PlaybackTime of the records of a list
RECURSIVE TotalPlaybackTime(_)
TotalPlaybackTime(plays) ==
    IF plays = <<>> THEN 0
    ELSE Head(plays).PlaybackTime + TotalPlaybackTime(Tail(plays))

\* C39: every record getPlaybacks returns has 0 <= PlaybackTime <= the nominal
\* duration of its track; the intervals [StartTime, StartTime + PlaybackTime)
\* of two different returned records do not overlap; and the sum of the
\* PlaybackTime is at most the span from the oldest returned start to the end
\* of the most recent returned play.
C39_NoDoubleCounting ==
    (last.op = "report" /\ ~last.panic) =>
        LET plays == last.plays
            n == Len(plays)
        IN  /\ \A i \in 1..n :
                   /\ 0 <= plays[i].PlaybackTime
                   /\ plays[i].PlaybackTime <= plays[i].Track.Duration
            /\ \A i, j \in 1..n :
                   i # j =>
                       \/ plays[i].StartTime + plays[i].PlaybackTime <= plays[j].StartTime
                       \/ plays[j].StartTime + plays[j].PlaybackTime <= plays[i].StartTime
            /\ n > 0 =>
                   TotalPlaybackTime(plays)
                       <= plays[1].StartTime + plays[1].PlaybackTime - plays[n].StartTime

\* C39 witness: a report of at least three records in which a record that was
\* cut short by the next play stands beside one that ran its full duration
C39_SkippedEarly ==
    /\ last.op = "report" /\ ~last.panic
    /\ Len(last.plays) >= 3
    /\ \E i, j \in 2..Len(last.plays) :
           /\ last.plays[i].PlaybackTime < last.plays[i].Track.Duration
           /\ last.plays[i].PlaybackTime
                  = last.plays[i - 1].StartTime - last.plays[i].StartTime
           /\ last.plays[j].PlaybackTime = last.plays[j].Track.Duration

(***************************************************************************)
(* Claims about the totals of the artist and track views.                  *)
(***************************************************************************)
\* the sum of the Plays of the rows of a table
RECURSIVE SumPlays(_)
SumPlays(rows) ==
    IF rows = <<>> THEN 0 ELSE Head(rows).Plays + SumPlays(Tail(rows))

\* the sum of the Time of the rows of a table
RECURSIVE SumTime(_)
SumTime(rows) ==
    IF rows = <<>> THEN 0 ELSE Head(rows).Time + SumTime(Tail(rows))

\* C40: in the artist view the play count and the time of every artist are
\* the sums of the plays and of the times of the rows of its track breakdown;
\* in the track view the plays of the rows sum to the number of records
\* getPlaybacks returns and their times to the total PlaybackTime of those
\* records.
C40_TotalsAddUp ==
    /\ (last.op = "artists" /\ ~last.panic) =>
           \A i \in 1..Len(last.rows) :
               /\ last.rows[i].Plays = SumPlays(last.rows[i].Tracks)
               /\ last.rows[i].Time = SumTime(last.rows[i].Tracks)
    /\ (last.op = "tracks" /\ ~last.panic) =>
           LET plays == getPlaybacks(store, AllOptions).plays
           IN  /\ SumPlays(last.rows) = Len(plays)
               /\ SumTime(last.rows) = TotalPlaybackTime(plays)

\* C40 witness: an artist view in which an artist has two tracks in its
\* breakdown, one of them played more than once
C40_ArtistWithTwoTracks ==
    /\ last.op = "artists" /\ ~last.panic
    /\ \E i \in 1..Len(last.rows) :
           /\ Len(last.rows[i].Tracks) >= 2
           /\ \E k \in 1..Len(last.rows[i].Tracks) : last.rows[i].Tracks[k].Plays >= 2
====
